---- MODULE Spec2Model ----
(***************************************************************************)
(* masuda-forever: the incremental crawl-and-persist engine.               *)
(*                                                                         *)
(* Strings are sequences of one-character strings, so that the fixed       *)
(* offsets the code slices at (scraper.ts:311-312) are offsets here too.   *)
(* Non-ASCII characters are written by code point: "U6B21" is the 'next'   *)
(* marker of the pager, "U25A0" the title fallback glyph.                  *)
(***************************************************************************)
EXTENDS Integers, Sequences, FiniteSets, TLC

VARIABLES
    chainLen,        \* the site: listing pages 1..chainLen, page k links to k+1
    store,           \* table article_urls: a set of rows
    opsLeft,         \* entry-point invocations still allowed in this behaviour
    pc,              \* position of the running invocation
    driver,          \* which code runs: "shared" (scraper.ts), "worker" (index.ts), "light"
    maxPages,        \* parameter maxPages of scrapeAnondUrlsRecursive (NoBudget = undefined)
    currentUrl,      \* local currentUrl
    pagesProcessed,  \* local pagesProcessed
    result,          \* local result: ScrapeResult
    elapsed,         \* Date.now() - startTime
    outcome,         \* what the last finished invocation gave its caller
    fetchLog,        \* URLs passed to fetch() by the running/last invocation, in order
    inFlight,        \* fetches issued and not yet answered
    fetchFailed,     \* the last fetch of the invocation answered with a non-ok status
    timedOut,        \* the invocation left its loop through the deadline branch
    insertCalls,     \* calls of batchInsertUrls made by the running/last invocation
    added,           \* rows the running/last invocation added to the store
    lastCall,        \* the last direct call of batchInsertUrls, and how it relates to the one before
    pageArticles,    \* local pageArticles (articles in the light crawl): the records of the last page
    request,         \* the HTTP request the worker's fetch handler is answering
    response,        \* the Response it returned: status and Location
    redirect,        \* locals of the random redirect: startYear, endYear, randomYear
    queries,         \* store queries the handler issued for the request
    pending,         \* paths the handler still has to crawl for the request, in order
    processedDates,  \* paths whose crawl returned (yearsProcessed / datesProcessed)
    failedDates,     \* paths whose crawl threw (failedYears / failedDates)
    crawls,          \* two overlapping crawl invocations persisting their page records
    body,            \* the JSON body of /scrape/date/MMDD: results and the three totals
    scrape_progress, \* table scrape_progress: one checkpoint row per date
    lastSeed,        \* the last init-progress run: its options and the table before it
    rangeCall,       \* a call of generateMonthDaysBetween: its arguments and what it returned
    loopBack         \* the page the last listing page's next link leads back to (0: none)

vars == <<chainLen, store, opsLeft, pc, driver, maxPages, currentUrl, pagesProcessed,
          result, elapsed, outcome, fetchLog, inFlight, fetchFailed, timedOut,
          insertCalls, added, lastCall, pageArticles, request, response, redirect, queries,
          pending, processedDates, failedDates, crawls, body, scrape_progress, lastSeed,
          rangeCall, loopBack>>

----------------------------------------------------------------------------
(* Bounds of the model *)

MaxChain == 3
MaxOps == 2
MaxBudget == 2
MaxBatch == 2
SlowFetchMs == 300000
MaxTodayYear == 2009
MaxCheckpointPages == 2
MaxCycleCount == 3

(* Program constants *)

TIMEOUT_MS == 300000
DELAY_MS == 500
YearFrom == 27
YearTo == 31
MonthDayTo == 35
ScanStartYear == 2006
ScanEndYear == 2025
BaseYear == 2024
RedirectFirstYear == 2006
RedirectSecondYear == 2007
AnniversaryMonth == 9
AnniversaryDay == 24
SeedFirstYear == 2006
SeedFirstMonth == 9
SeedFirstDay == 24
DateFrom == 27
DateLength == 8
MinDatedUrlLength == 35

----------------------------------------------------------------------------
(* Characters and strings *)

Digit(n) == CASE n = 0 -> "0" [] n = 1 -> "1" [] n = 2 -> "2" [] n = 3 -> "3"
              [] n = 4 -> "4" [] n = 5 -> "5" [] n = 6 -> "6" [] n = 7 -> "7"
              [] n = 8 -> "8" [] n = 9 -> "9"

Digits == {Digit(n) : n \in 0..9}

Origin == <<"h","t","t","p","s",":","/","/","a","n","o","n","d",".",
            "h","a","t","e","l","a","b","o",".","j","p">>

Glyph == <<"U25A0">>

Absent == <<>>

\* String.prototype.slice(from, to) with 0 <= from <= to: 0-based, end exclusive
Slice(s, from, to) ==
    LET hi == IF to > Len(s) THEN Len(s) ELSE to
    IN  IF from >= hi THEN <<>> ELSE SubSeq(s, from + 1, hi)

\* String.prototype.startsWith('http')
StartsWithHttp(s) == Len(s) >= 4 /\ SubSeq(s, 1, 4) = <<"h","t","t","p">>

IsSpace(c) == c = " "

RECURSIVE TrimLeft(_)
TrimLeft(s) == IF s # <<>> /\ IsSpace(Head(s)) THEN TrimLeft(Tail(s)) ELSE s

RECURSIVE TrimRight(_)
TrimRight(s) == IF s # <<>> /\ IsSpace(s[Len(s)]) THEN TrimRight(SubSeq(s, 1, Len(s) - 1)) ELSE s

\* String.prototype.trim()
Trim(s) == TrimRight(TrimLeft(s))

\* replaceAll('&amp;', '&')
RECURSIVE DecodeAmp(_)
DecodeAmp(s) ==
    IF s = <<>> THEN <<>>
    ELSE IF Len(s) >= 5 /\ SubSeq(s, 1, 5) = <<"&","a","m","p",";">>
         THEN <<"&">> \o DecodeAmp(SubSeq(s, 6, Len(s)))
         ELSE <<Head(s)>> \o DecodeAmp(Tail(s))

\* mutant: the origin is prepended to every link, absolute ones too
AbsolutizeAlways(href) == Origin \o href

\* url.startsWith('http') ? url : `https://anond.hatelabo.jp${url}`
Absolutize(href) == IF StartsWithHttp(href) THEN href ELSE Origin \o href

----------------------------------------------------------------------------
(* Numbers and calendar dates as the worker writes and reads them *)

\* String(n).padStart(2, '0') for 0 <= n <= 99
Pad2(n) == <<Digit(n \div 10), Digit(n % 10)>>

\* String(year) for a four-digit year
YearString(y) ==
    <<Digit(y \div 1000), Digit((y \div 100) % 10), Digit((y \div 10) % 10), Digit(y % 10)>>

\* /^\d{n}$/.test(s)
IsDigits(s, n) == Len(s) = n /\ \A i \in 1..n : s[i] \in Digits

DigitValue(c) == CHOOSE n \in 0..9 : Digit(n) = c

\* Number.parseInt(s, 10) of a string of digits
RECURSIVE ParseInt(_)
ParseInt(s) ==
    IF s = <<>> THEN 0
    ELSE 10 * ParseInt(SubSeq(s, 1, Len(s) - 1)) + DigitValue(s[Len(s)])

\* SQL substr(s, pos, len): 1-based
SqlSubstr(s, pos, len) ==
    LET hi == IF pos + len - 1 > Len(s) THEN Len(s) ELSE pos + len - 1
    IN  IF pos > hi THEN <<>> ELSE SubSeq(s, pos, hi)

IsLeapYear(y) == (y % 4 = 0 /\ y % 100 # 0) \/ y % 400 = 0

DaysInMonth(y, m) ==
    IF m = 2 THEN (IF IsLeapYear(y) THEN 29 ELSE 28)
    ELSE IF m \in {4, 6, 9, 11} THEN 30 ELSE 31

\* a Date at local midnight
Day(y, m, d) == [year |-> y, month |-> m, day |-> d]

\* setDate(getDate() + 1)
NextDay(dt) ==
    IF dt.day < DaysInMonth(dt.year, dt.month) THEN Day(dt.year, dt.month, dt.day + 1)
    ELSE IF dt.month < 12 THEN Day(dt.year, dt.month + 1, 1)
    ELSE Day(dt.year + 1, 1, 1)

PreviousDay(dt) ==
    IF dt.day > 1 THEN Day(dt.year, dt.month, dt.day - 1)
    ELSE IF dt.month > 1 THEN Day(dt.year, dt.month - 1, DaysInMonth(dt.year, dt.month - 1))
    ELSE Day(dt.year - 1, 12, 31)

RECURSIVE AddDays(_, _)
AddDays(dt, n) == IF n = 0 THEN dt ELSE AddDays(NextDay(dt), n - 1)

\* new Date(year, monthIndex, day) for monthIndex in -1..98 and day in 0..99:
\* fields out of range roll over; a year below 100 is taken as 19xx
NewDateYear(year, monthIndex) ==
    (IF year <= 99 THEN 1900 + year ELSE year)
        + (IF monthIndex < 0 THEN -1 ELSE monthIndex \div 12)

NewDateMonth(monthIndex) == IF monthIndex < 0 THEN 12 ELSE (monthIndex % 12) + 1

\* day d >= 1 counted from the first of month m of year y
RECURSIVE DayOfMonth(_, _, _)
DayOfMonth(y, m, d) ==
    IF d <= DaysInMonth(y, m) THEN Day(y, m, d)
    ELSE DayOfMonth(IF m = 12 THEN y + 1 ELSE y, IF m = 12 THEN 1 ELSE m + 1,
                    d - DaysInMonth(y, m))

NewDate(year, monthIndex, day) ==
    IF day = 0
    THEN PreviousDay(Day(NewDateYear(year, monthIndex), NewDateMonth(monthIndex), 1))
    ELSE DayOfMonth(NewDateYear(year, monthIndex), NewDateMonth(monthIndex), day)

\* a < b on Date objects
DateBefore(a, b) ==
    \/ a.year < b.year
    \/ a.year = b.year /\ a.month < b.month
    \/ a.year = b.year /\ a.month = b.month /\ a.day < b.day

\* whole days from a to b, for a not after b
RECURSIVE DaysBetween(_, _)
DaysBetween(a, b) == IF a = b THEN 0 ELSE 1 + DaysBetween(NextDay(a), b)

\* getTime() counts milliseconds
MsPerDay == 86400000

\* parseDateFromString; the strings that reach it have passed /^\d{8}$/
parseDateFromString(dateString) ==
    NewDate(ParseInt(Slice(dateString, 0, 4)), ParseInt(Slice(dateString, 4, 6)) - 1,
            ParseInt(Slice(dateString, 6, 8)))

formatDateToString(date) == YearString(date.year) \o Pad2(date.month) \o Pad2(date.day)

----------------------------------------------------------------------------
(* The site: permalinks, listing pages and what fetch() answers *)

YearOf(n) == <<"2","0","0",Digit((5 + n) % 10)>>
MonthDayOf(n) == <<"0","1","0",Digit(1 + (n % 2))>>
TimeOf(n) == <<"1","2","3","4","5",Digit(n % 10)>>

\* /YYYYMMDDHHMMSS
PermalinkPath(n) == <<"/">> \o YearOf(n) \o MonthDayOf(n) \o TimeOf(n)
Permalink(n) == Origin \o PermalinkPath(n)

PagePath(k) == IF k = 1 THEN <<"/">> ELSE <<"/","?","p","a","g","e","=",Digit(k % 10)>>
PageUrl(k) == Origin \o PagePath(k)

\* the h3 anchor of one div.section: raw href attribute (Absent: none) and text
Section(href, text) == [href |-> href, text |-> text]

\* Page k lists articles k and k+1; article k+1 has blank anchor text here and
\* the text "A" on page k+1.  Even pages link absolutely and carry one section
\* without a link.
SectionsOf(k) ==
    LET link(n) == IF k % 2 = 0 THEN Permalink(n) ELSE PermalinkPath(n)
    IN  <<Section(link(k), <<" ","A"," ">>), Section(link(k + 1), <<" ">>)>>
        \o (IF k % 2 = 0 THEN <<Section(Absent, <<"B">>)>> ELSE <<>>)

PrevText == <<"<","U524D","U306E","2","5","U4EF6">>
NextText == <<"U6B21","U306E","2","5","U4EF6",">">>

\* the anchors of .pager-l, in document order
PagerOf(k, len) ==
    (IF k > 1 THEN <<Section(PagePath(k - 1), PrevText)>> ELSE <<>>)
    \o (IF k < len
        THEN <<Section(IF k % 2 = 0 THEN PageUrl(k + 1) ELSE PagePath(k + 1), NextText)>>
        ELSE <<>>)

PageOf(k, len) == [sections |-> SectionsOf(k), pager |-> PagerOf(k, len)]

IsPage(url, len) == \E k \in 1..len : PageUrl(k) = url
PageAt(url, len) == PageOf(CHOOSE k \in 1..len : PageUrl(k) = url, len)

----------------------------------------------------------------------------
(* Record Extractor, tree-parsing variant (cheerio) *)

\* .attr('href'): the parser hands out the attribute with entities decoded
AttrHref(a) == DecodeAmp(a.href)

\* mutant: no fallback, the trimmed text is the title even when empty
TitleOfNoFallback(a) == Trim(a.text)

\* mutant: the fallback is applied, the text is not trimmed
TitleOfUntrimmed(a) == IF Trim(a.text) = <<>> THEN Glyph ELSE a.text

\* const title = linkElement.text().trim() || GLYPH
TitleOf(a) == IF Trim(a.text) = <<>> THEN Glyph ELSE Trim(a.text)

\* $('div.section').each(...): one record per section whose anchor has a link
RECURSIVE CheerioArticles(_)
CheerioArticles(sections) ==
    IF sections = <<>> THEN <<>>
    ELSE LET a == Head(sections)
             url == AttrHref(a)
         IN  (IF url # Absent
              THEN <<[url |-> Absolutize(url), title |-> TitleOf(a)]>>
              ELSE <<>>)
             \o CheerioArticles(Tail(sections))

Includes(text, c) == \E i \in 1..Len(text) : text[i] = c

\* $('.pager-l a').filter(text includes NEXT).attr('href')
RECURSIVE CheerioNextLink(_)
CheerioNextLink(pager) ==
    IF pager = <<>> THEN Absent
    ELSE IF Includes(Head(pager).text, "U6B21") THEN AttrHref(Head(pager))
         ELSE CheerioNextLink(Tail(pager))

\* mutant: the pager selector matches nothing
CheerioNextUrlWrongSelector(page) == Absent

\* currentUrl = nextPageLink ? absolutized : ''
CheerioNextUrl(page) ==
    LET nextPageLink == CheerioNextLink(page.pager)
    IN  IF nextPageLink # Absent THEN Absolutize(nextPageLink) ELSE Absent

----------------------------------------------------------------------------
(* Record Extractor, pattern variant (regular expressions) *)

\* "(\/\d{14})"
IsPermalinkPath(h) ==
    Len(h) = 15 /\ h[1] = "/" /\ \A i \in 2..15 : h[i] \in Digits

\* /<div class="section"[^>]*>[\s\S]*?<h3>\s*<a href="(\/\d{14})"/g, title always GLYPH
RECURSIVE extractArticlesWithRegex(_)
extractArticlesWithRegex(sections) ==
    IF sections = <<>> THEN <<>>
    ELSE (IF IsPermalinkPath(Head(sections).href)
          THEN <<[url |-> Origin \o Head(sections).href, title |-> Glyph]>>
          ELSE <<>>)
         \o extractArticlesWithRegex(Tail(sections))

RECURSIVE LeadingDigits(_)
LeadingDigits(s) ==
    IF s # <<>> /\ Head(s) \in Digits THEN 1 + LeadingDigits(Tail(s)) ELSE 0

\* <a href="([^"]+)"[^>]*>NEXT NO \d+ KEN [>&]
NextAnchorMatches(a) ==
    /\ a.href # <<>>
    /\ Len(a.text) >= 2 /\ a.text[1] = "U6B21" /\ a.text[2] = "U306E"
    /\ LET rest == SubSeq(a.text, 3, Len(a.text))
           n == LeadingDigits(rest)
       IN  n >= 1 /\ Len(rest) >= n + 2 /\ rest[n + 1] = "U4EF6" /\ rest[n + 2] \in {">", "&"}

RECURSIVE FirstNextAnchor(_)
FirstNextAnchor(anchors) ==
    IF anchors = <<>> THEN Absent
    ELSE IF NextAnchorMatches(Head(anchors)) THEN Head(anchors).href
         ELSE FirstNextAnchor(Tail(anchors))

\* mutant: the matched link is returned as written, not made absolute
extractNextPageUrlRelative(page) ==
    LET m == FirstNextAnchor(page.sections \o page.pager)
    IN  IF m = Absent THEN Absent ELSE DecodeAmp(m)

\* html.match(...) scans the whole document: the section anchors, then the pager
extractNextPageUrl(page) ==
    LET m == FirstNextAnchor(page.sections \o page.pager)
    IN  IF m = Absent THEN Absent ELSE Absolutize(DecodeAmp(m))

----------------------------------------------------------------------------
(* Deduplicating Store: table article_urls *)

Null == <<"NULL">>

\* url TEXT UNIQUE NOT NULL
UrlTaken(st, url) == \E r \in st : r.url = url

\* the four bound arguments of one VALUES tuple
BatchRow(a) ==
    [url |-> a.url, title |-> a.title,
     url_year |-> IF Len(a.url) >= YearTo THEN Slice(a.url, YearFrom, YearTo) ELSE <<>>,
     url_monthday |-> IF Len(a.url) >= MonthDayTo THEN Slice(a.url, YearTo, MonthDayTo) ELSE <<>>]

\* mutant: INSERT OR REPLACE, a conflicting row takes the place of the stored one
RECURSIVE InsertOrReplace(_, _)
InsertOrReplace(st, articles) ==
    IF articles = <<>> THEN [store |-> st, rowsAffected |-> 0]
    ELSE LET row == BatchRow(Head(articles))
             rest == InsertOrReplace({r \in st : r.url # row.url} \cup {row}, Tail(articles))
         IN  [store |-> rest.store, rowsAffected |-> rest.rowsAffected + 1]

\* INSERT OR IGNORE ... VALUES (...), (...): rows in order, conflicts skipped
RECURSIVE InsertOrIgnore(_, _)
InsertOrIgnore(st, articles) ==
    IF articles = <<>> THEN [store |-> st, rowsAffected |-> 0]
    ELSE LET row == BatchRow(Head(articles))
             hit == UrlTaken(st, row.url)
             rest == InsertOrIgnore(IF hit THEN st ELSE st \cup {row}, Tail(articles))
         IN  [store |-> rest.store,
              rowsAffected |-> rest.rowsAffected + (IF hit THEN 0 ELSE 1)]

\* mutant: the call reports the number of rows offered, not the number inserted
batchInsertUrlsCountsOffered(st, articles) ==
    [store |-> InsertOrIgnore(st, articles).store, rowsAffected |-> Len(articles)]

batchInsertUrls(st, articles) ==
    IF Len(articles) = 0 THEN [store |-> st, rowsAffected |-> 0]
    ELSE InsertOrIgnore(st, articles)

\* INSERT INTO article_urls (url, title) VALUES (?, ?): the derived columns stay NULL
PlainRow(a) == [url |-> a.url, title |-> a.title, url_year |-> Null, url_monthday |-> Null]

\* the per-record loop of the worker: SELECT, then INSERT when absent;
\* an INSERT refused by the UNIQUE constraint is caught, logged and skipped
RECURSIVE PersistEach(_, _)
PersistEach(st, articles) ==
    IF articles = <<>> THEN [store |-> st, newUrls |-> <<>>, existing |-> 0]
    ELSE LET a == Head(articles)
             found == \E r \in st : r.url = a.url
             refused == ~found /\ UrlTaken(st, a.url)
             st1 == IF found \/ refused THEN st ELSE st \cup {PlainRow(a)}
             rest == PersistEach(st1, Tail(articles))
         IN  [store |-> rest.store,
              newUrls |-> (IF found \/ refused THEN <<>> ELSE <<a>>) \o rest.newUrls,
              existing |-> rest.existing + (IF found THEN 1 ELSE 0)]

----------------------------------------------------------------------------
(* Inputs *)

\* maxPages === undefined
NoBudget == -1

\* !maxPages
NoMaxPages(mp) == mp = NoBudget \/ mp = 0

Budgets == {NoBudget} \cup 0..MaxBudget

Drivers == {"shared", "worker"}

\* how long one fetch takes, in ms
FetchDurations == {0, SlowFetchMs}

\* records a caller may hand to batchInsertUrls: permalinks, and one url too
\* short to hold a timestamp
ArticlePool ==
    {[url |-> Permalink(1), title |-> <<"A">>], [url |-> Permalink(1), title |-> Glyph],
     [url |-> Permalink(2), title |-> <<"Z">>],
     [url |-> Origin \o <<"/","x">>, title |-> <<"A">>]}

ArticleLists == UNION {[1..n -> ArticlePool] : n \in 0..MaxBatch}

Range(f) == {f[i] : i \in DOMAIN f}

DistinctUrls(articles) ==
    \A i, j \in 1..Len(articles) : articles[i].url = articles[j].url => i = j

----------------------------------------------------------------------------
(* State *)

EmptyResult == [newUrls |-> <<>>, existingUrlsCount |-> 0, pagesScraped |-> 0]

NoOutcome == [kind |-> "none", op |-> "none", nextPageUrl |-> Absent, insertedCount |-> 0]

\* no request is being handled
NoRequest == [path |-> "none"]
NoResponse == [status |-> 0, location |-> Absent]
NoRedirect == [startYear |-> 0, endYear |-> 0, randomYear |-> 0]

\* response of /scrape/date/MMDD before the first year (index.ts:186-194)
\* and, on a 500 response, its error field
EmptyBody == [results |-> <<>>, totalNewUrls |-> 0, totalExistingUrls |-> 0,
              totalPagesScrapped |-> 0, error |-> Absent]

\* generateMonthDaysBetween is not being called
NoRangeCall == [startMonthDay |-> Absent, endMonthDay |-> Absent, phase |-> "none",
                currentDate |-> Day(0, 0, 0), endDate |-> Day(0, 0, 0), monthDays |-> <<>>]

\* init-progress has not run
NoSeed == [op |-> "none", startYear |-> 0, endYear |-> 0, repeat |-> FALSE, runs |-> 0]

\* no direct call of batchInsertUrls was the previous operation
NoCall == [articles |-> <<>>, returned |-> 0, fresh |-> FALSE, repeat |-> FALSE,
           prevReturned |-> 0, changed |-> FALSE]

\* nothing runs: no invocation has locals, no request is being handled
Quiescent ==
    /\ opsLeft = MaxOps
    /\ pc = "idle"
    /\ driver = "none"
    /\ maxPages = NoBudget
    /\ currentUrl = Absent
    /\ pagesProcessed = 0
    /\ result = EmptyResult
    /\ elapsed = 0
    /\ outcome = NoOutcome
    /\ fetchLog = <<>>
    /\ inFlight = 0
    /\ fetchFailed = FALSE
    /\ timedOut = FALSE
    /\ insertCalls = 0
    /\ added = 0
    /\ lastCall = NoCall
    /\ pageArticles = <<>>
    /\ request = NoRequest
    /\ response = NoResponse
    /\ redirect = NoRedirect
    /\ queries = 0
    /\ pending = <<>>
    /\ processedDates = <<>>
    /\ failedDates = {}
    /\ body = EmptyBody

Init ==
    /\ chainLen \in 1..MaxChain
    /\ store = {}
    /\ crawls = <<>>
    /\ scrape_progress = {}
    /\ lastSeed = NoSeed
    /\ rangeCall = NoRangeCall
    /\ Quiescent
    /\ loopBack = 0

siteVars == <<chainLen, loopBack>>
handlerVars == <<request, response, redirect, queries, pending, processedDates, failedDates,
                 body>>
raceVars == <<crawls>>
seedVars == <<scrape_progress, lastSeed>>
rangeVars == <<rangeCall>>
loopVars == <<driver, maxPages>>
auxCall == <<lastCall>>

----------------------------------------------------------------------------
(* Deduplicating Store called directly *)

\* batchInsertUrls(client, articles)
BatchInsertCall(articles) ==
    /\ pageArticles' = <<>>
    /\ pc = "idle" /\ opsLeft > 0
    /\ LET ins == batchInsertUrls(store, articles)
       IN  /\ store' = ins.store
           /\ outcome' = [kind |-> "returned", op |-> "insert", nextPageUrl |-> Absent,
                          insertedCount |-> ins.rowsAffected]
           /\ added' = Cardinality(ins.store) - Cardinality(store)
           /\ lastCall' = [articles |-> articles,
                           returned |-> ins.rowsAffected,
                           fresh |-> DistinctUrls(articles)
                                     /\ \A a \in Range(articles) : ~UrlTaken(store, a.url),
                           repeat |-> /\ lastCall.fresh
                                      /\ Range(lastCall.articles) = Range(articles)
                                      /\ Len(lastCall.articles) = Len(articles),
                           prevReturned |-> lastCall.returned,
                           changed |-> ins.store # store]
    /\ opsLeft' = opsLeft - 1
    /\ driver' = "none"
    /\ maxPages' = NoBudget
    /\ currentUrl' = Absent
    /\ pagesProcessed' = 0
    /\ result' = EmptyResult
    /\ elapsed' = 0
    /\ fetchLog' = <<>>
    /\ fetchFailed' = FALSE
    /\ timedOut' = FALSE
    /\ insertCalls' = 1
    /\ pc' = "done"
    /\ UNCHANGED <<siteVars, seedVars, rangeVars, handlerVars, raceVars,
                   inFlight>>

----------------------------------------------------------------------------
(* Crawl Driver: scrapeAnondUrlsRecursive, in scraper.ts ("shared") and in
   index.ts ("worker") *)

\* scrapeAnondUrls: startUrl = 'https://anond.hatelabo.jp/'
StartUrl == PageUrl(1)

\* const result = {...}; let currentUrl = pageUrl; let pagesProcessed = 0; startTime = Date.now()
ScrapeStart(d, mp) ==
    /\ pageArticles' = <<>>
    /\ pc = "idle" /\ opsLeft > 0
    /\ opsLeft' = opsLeft - 1
    /\ driver' = d
    /\ maxPages' = mp
    /\ currentUrl' = StartUrl
    /\ pagesProcessed' = 0
    /\ result' = EmptyResult
    /\ elapsed' = 0
    /\ outcome' = NoOutcome
    /\ fetchLog' = <<>>
    /\ fetchFailed' = FALSE
    /\ timedOut' = FALSE
    /\ insertCalls' = 0
    /\ added' = 0
    /\ pc' = "loop"
    /\ lastCall' = NoCall
    /\ UNCHANGED <<siteVars, seedVars, rangeVars, handlerVars, raceVars,
                   store, inFlight>>

\* mutant: the loop also ends when the pages so far brought no new url
LoopCondNeedsNewUrls ==
    /\ currentUrl # Absent /\ (NoMaxPages(maxPages) \/ pagesProcessed < maxPages)
    /\ (pagesProcessed = 0 \/ result.newUrls # <<>>)

\* mutant: the budget test is off by one
LoopCondOffByOne == currentUrl # Absent /\ (NoMaxPages(maxPages) \/ pagesProcessed <= maxPages)

\* while (currentUrl && (!maxPages || pagesProcessed < maxPages) [&& foundNewUrls])
LoopCond == currentUrl # Absent /\ (NoMaxPages(maxPages) \/ pagesProcessed < maxPages)

\* if (Date.now() - startTime > TIMEOUT_MS): only the shared driver has the branch
DeadlinePassed == driver = "shared" /\ elapsed > TIMEOUT_MS

Returned == [kind |-> "returned", op |-> "crawl", nextPageUrl |-> Absent, insertedCount |-> 0]
Threw == [kind |-> "threw", op |-> "crawl", nextPageUrl |-> Absent, insertedCount |-> 0]

\* the loop condition fails: return result
LoopExit ==
    /\ UNCHANGED pageArticles
    /\ pc = "loop" /\ driver \in Drivers
    /\ ~LoopCond
    /\ pc' = "done"
    /\ outcome' = Returned
    /\ UNCHANGED <<siteVars, seedVars, rangeVars, handlerVars, raceVars,
                   loopVars, store, opsLeft, currentUrl, pagesProcessed, result,
                   elapsed, fetchLog, inFlight, fetchFailed, timedOut, insertCalls, added,
                   auxCall>>

\* the deadline branch: break, return result
LoopTimeout ==
    /\ UNCHANGED pageArticles
    /\ pc = "loop" /\ driver \in Drivers
    /\ LoopCond /\ DeadlinePassed
    /\ timedOut' = TRUE
    /\ pc' = "done"
    /\ outcome' = Returned
    /\ UNCHANGED <<siteVars, seedVars, rangeVars, handlerVars, raceVars,
                   loopVars, store, opsLeft, currentUrl, pagesProcessed, result,
                   elapsed, fetchLog, inFlight, fetchFailed, insertCalls, added, auxCall>>

\* const response = await fetch(currentUrl)
IssueFetch ==
    /\ UNCHANGED pageArticles
    /\ pc = "loop" /\ driver \in Drivers
    /\ LoopCond /\ ~DeadlinePassed
    /\ fetchLog' = Append(fetchLog, currentUrl)
    /\ inFlight' = inFlight + 1
    /\ pc' = "fetching"
    /\ UNCHANGED <<siteVars, seedVars, rangeVars, handlerVars, raceVars,
                   loopVars, store, opsLeft, currentUrl, pagesProcessed, result,
                   elapsed, outcome, fetchFailed, timedOut, insertCalls, added, auxCall>>

\* mutant: the iteration does not count the records that were already stored
SharedPageDropsExisting(st, res, page) ==
    LET extracted == CheerioArticles(page.sections)
        ins == batchInsertUrls(st, extracted)
        insertedCount == ins.rowsAffected
    IN  [store |-> ins.store,
         result |-> [newUrls |-> res.newUrls \o Slice(extracted, 0, insertedCount),
                     existingUrlsCount |-> res.existingUrlsCount,
                     pagesScraped |-> res.pagesScraped + 1],
         insertCalls |-> 1, pageArticles |-> extracted]

\* what one iteration does with an ok response, in the shared driver
SharedPage(st, res, page) ==
    LET extracted == CheerioArticles(page.sections)
        ins == batchInsertUrls(st, extracted)
        insertedCount == ins.rowsAffected
    IN  [store |-> ins.store,
         result |-> [newUrls |-> res.newUrls \o Slice(extracted, 0, insertedCount),
                     existingUrlsCount |-> res.existingUrlsCount
                                           + (Len(extracted) - insertedCount),
                     pagesScraped |-> res.pagesScraped + 1],
         insertCalls |-> 1, pageArticles |-> extracted]

\* what one iteration does with an ok response, in the worker's driver
WorkerPage(st, res, page) ==
    LET extracted == CheerioArticles(page.sections)
        per == PersistEach(st, extracted)
    IN  [store |-> per.store,
         result |-> [newUrls |-> res.newUrls \o per.newUrls,
                     existingUrlsCount |-> res.existingUrlsCount + per.existing,
                     pagesScraped |-> res.pagesScraped + 1],
         insertCalls |-> 0, pageArticles |-> extracted]

\* where the driver goes after a page: the shared driver waits 500 ms first
AfterPage(d) == IF d = "shared" THEN "delay" ELSE "loop"

\* response.ok: extract, persist, count, follow the next link
FetchOk(ms) ==
    /\ pc = "fetching" /\ driver \in Drivers
    /\ IsPage(currentUrl, chainLen)
    /\ LET page == PageAt(currentUrl, chainLen)
           it == IF driver = "shared" THEN SharedPage(store, result, page)
                 ELSE WorkerPage(store, result, page)
       IN  /\ store' = it.store
           /\ result' = it.result
           /\ insertCalls' = insertCalls + it.insertCalls
           /\ added' = added + (Cardinality(it.store) - Cardinality(store))
           /\ currentUrl' = CheerioNextUrl(page)
           /\ pageArticles' = it.pageArticles
    /\ pagesProcessed' = pagesProcessed + 1
    /\ inFlight' = inFlight - 1
    /\ elapsed' = elapsed + ms
    /\ pc' = AfterPage(driver)
    /\ UNCHANGED <<siteVars, seedVars, rangeVars, handlerVars, raceVars,
                   loopVars, opsLeft, outcome, fetchLog, fetchFailed, timedOut,
                   auxCall>>

\* what a non-ok response ends in: the shared driver catches its own throw,
\* logs and breaks, and so returns result; the worker's driver throws
OnFetchFailure(d) == IF d = "shared" THEN Returned ELSE Threw

\* !response.ok: throw new Error(...)
FetchFail ==
    /\ UNCHANGED pageArticles
    /\ pc = "fetching" /\ driver \in Drivers
    /\ fetchFailed' = TRUE
    /\ inFlight' = inFlight - 1
    /\ outcome' = OnFetchFailure(driver)
    /\ pc' = "done"
    /\ UNCHANGED <<siteVars, seedVars, rangeVars, handlerVars, raceVars,
                   loopVars, store, opsLeft, currentUrl, pagesProcessed, result,
                   elapsed, fetchLog, timedOut, insertCalls, added, auxCall>>

\* await new Promise((resolve) => setTimeout(resolve, 500))
Delay ==
    /\ UNCHANGED pageArticles
    /\ pc = "delay"
    /\ elapsed' = elapsed + DELAY_MS
    /\ pc' = "loop"
    /\ UNCHANGED <<siteVars, seedVars, rangeVars, handlerVars, raceVars,
                   loopVars, store, opsLeft, currentUrl, pagesProcessed, result,
                   outcome, fetchLog, inFlight, fetchFailed, timedOut, insertCalls, added,
                   auxCall>>

----------------------------------------------------------------------------
(* Light crawl: scrapeSinglePageLight *)

\* const response = await fetch(pageUrl)
LightStart(k) ==
    /\ pageArticles' = <<>>
    /\ pc = "idle" /\ opsLeft > 0
    /\ opsLeft' = opsLeft - 1
    /\ driver' = "light"
    /\ maxPages' = NoBudget
    /\ currentUrl' = PageUrl(k)
    /\ pagesProcessed' = 0
    /\ result' = EmptyResult
    /\ elapsed' = 0
    /\ outcome' = NoOutcome
    /\ fetchLog' = <<PageUrl(k)>>
    /\ inFlight' = inFlight + 1
    /\ fetchFailed' = FALSE
    /\ timedOut' = FALSE
    /\ insertCalls' = 0
    /\ added' = 0
    /\ pc' = "fetching"
    /\ lastCall' = NoCall
    /\ UNCHANGED <<siteVars, seedVars, rangeVars, handlerVars, raceVars,
                   store>>

\* the body after an ok response: both extractors, one batch insert
LightPage(st, page) ==
    LET articles == extractArticlesWithRegex(page.sections)
        nextPageUrl == extractNextPageUrl(page)
        ins == batchInsertUrls(st, articles)
    IN  [store |-> ins.store, articles |-> articles, nextPageUrl |-> nextPageUrl,
         insertedCount |-> ins.rowsAffected]

LightFetchOk ==
    /\ pc = "fetching" /\ driver = "light"
    /\ IsPage(currentUrl, chainLen)
    /\ LET r == LightPage(store, PageAt(currentUrl, chainLen))
       IN  /\ store' = r.store
           /\ pageArticles' = r.articles
           /\ added' = Cardinality(r.store) - Cardinality(store)
           /\ outcome' = [kind |-> "returned", op |-> "light",
                          nextPageUrl |-> r.nextPageUrl, insertedCount |-> r.insertedCount]
    /\ insertCalls' = insertCalls + 1
    /\ inFlight' = inFlight - 1
    /\ pc' = "done"
    /\ UNCHANGED <<siteVars, seedVars, rangeVars, handlerVars, raceVars,
                   loopVars, opsLeft, currentUrl, pagesProcessed, result, elapsed,
                   fetchLog, fetchFailed, timedOut, auxCall>>

\* !response.ok: throw new Error(...)
LightFetchFail ==
    /\ UNCHANGED pageArticles
    /\ pc = "fetching" /\ driver = "light"
    /\ fetchFailed' = TRUE
    /\ inFlight' = inFlight - 1
    /\ outcome' = [kind |-> "threw", op |-> "light", nextPageUrl |-> Absent,
                   insertedCount |-> 0]
    /\ pc' = "done"
    /\ UNCHANGED <<siteVars, seedVars, rangeVars, handlerVars, raceVars,
                   loopVars, store, opsLeft, currentUrl, pagesProcessed, result,
                   elapsed, fetchLog, timedOut, insertCalls, added, auxCall>>

----------------------------------------------------------------------------
(* The caller has the outcome; the locals of the invocation are gone *)

CallerReceives ==
    /\ pageArticles' = <<>>
    /\ pc = "done"
    /\ pc' = "idle"
    /\ driver' = "none"
    /\ maxPages' = NoBudget
    /\ currentUrl' = Absent
    /\ pagesProcessed' = 0
    /\ result' = EmptyResult
    /\ elapsed' = 0
    /\ outcome' = NoOutcome
    /\ fetchLog' = <<>>
    /\ fetchFailed' = FALSE
    /\ timedOut' = FALSE
    /\ insertCalls' = 0
    /\ added' = 0
    /\ UNCHANGED <<siteVars, seedVars, rangeVars, handlerVars, raceVars,
                   store, opsLeft, inFlight, auxCall>>

----------------------------------------------------------------------------

Next ==
    \/ \E articles \in ArticleLists : BatchInsertCall(articles)
    \/ \E d \in Drivers, mp \in Budgets : ScrapeStart(d, mp)
    \/ LoopExit
    \/ LoopTimeout
    \/ IssueFetch
    \/ \E ms \in FetchDurations : FetchOk(ms)
    \/ FetchFail
    \/ Delay
    \/ \E k \in 1..chainLen : LightStart(k)
    \/ LightFetchOk
    \/ LightFetchFail
    \/ CallerReceives

Spec == Init /\ [][Next]_vars

----------------------------------------------------------------------------
(* The worker's fetch handler (index.ts): requests and what the site answers *)

FrontPath == <<"/">>

\* the listing of one day, /YYYYMMDD: the articles of that day, on one page
RECURSIVE DatedSections(_, _)
DatedSections(date, n) ==
    IF n = 0 THEN <<>>
    ELSE DatedSections(date, n - 1)
         \o (IF YearOf(n) \o MonthDayOf(n) = date
             THEN <<Section(PermalinkPath(n), <<"A">>)>> ELSE <<>>)

DatedPage(date) == [sections |-> DatedSections(date, MaxChain + 1), pager |-> <<>>]

\* years whose day listings answer with a non-ok status during a partial outage
OutageYears == {RedirectSecondYear}

\* response.ok is false for the first fetch of a crawl started at this path
FetchFails(outage, path) ==
    \/ outage = "all"
    \/ outage = "some" /\ path # FrontPath
       /\ \E y \in OutageYears : Slice(path, 1, 5) = YearString(y)

\* scrapeAnondUrlsRecursive of the worker, run from url to the end of the chain
RECURSIVE WorkerChain(_, _, _, _)
WorkerChain(st, res, url, len) ==
    IF url = Absent THEN [store |-> st, result |-> res, fetched |-> <<>>]
    ELSE LET page == PageAt(url, len)
             it == WorkerPage(st, res, page)
             rest == WorkerChain(it.store, it.result, CheerioNextUrl(page), len)
         IN  [store |-> rest.store, result |-> rest.result,
              fetched |-> <<url>> \o rest.fetched]

\* scrapeAnondUrls / scrapeHistoricalAnondUrls when the fetches succeed
CrawlOf(st, path, len) ==
    IF path = FrontPath THEN WorkerChain(st, EmptyResult, StartUrl, len)
    ELSE LET it == WorkerPage(st, EmptyResult, DatedPage(Tail(path)))
         IN  [store |-> it.store, result |-> it.result, fetched |-> <<Origin \o path>>]

\* the request: path, query parameters, environment.IS_DEVELOPMENT, new Date(),
\* the year Math.random() selects (as offset into the window), the site's state
BlankRequest ==
    [path |-> "/other", tail |-> <<>>, date |-> Absent, startDate |-> Absent,
     endDate |-> Absent, maxDays |-> Absent, dev |-> "unset", today |-> Day(0, 0, 0),
     pick |-> 0, outage |-> "none"]

DevFlags == {"true", "false", "unset"}

D8(y, m, d) == YearString(y) \o Pad2(m) \o Pad2(d)
MD(m, d) == Pad2(m) \o Pad2(d)

\* ?date=
DateParams == {Absent, D8(2007, 1, 2), <<"2","0","0","7","0","1","2">>,
               <<"2","0","0","7","0","1","0","x">>}

\* ?startDate= and ?endDate= of /scrape-historical-batch
BatchParams ==
    {<<D8(2006, 12, 31), D8(2007, 1, 2)>>, <<D8(2007, 1, 2), D8(2007, 1, 2)>>,
     <<D8(2007, 1, 2), D8(2006, 12, 31)>>, <<D8(2007, 1, 2), Absent>>,
     <<<<"2","0","0","7">>, D8(2007, 1, 2)>>}

MaxDaysParams == {Absent, <<"1">>}

\* the MMDD of /scrape/date/MMDD
TailParams == {MD(1, 2), MD(13, 1), MD(1, 32), MD(0, 1), MD(1, 0), <<"1","2","3">>}

\* ?startDate= and ?endDate= of /scrape/date-range
RangeParams ==
    {<<MD(1, 2), MD(1, 2)>>, <<MD(12, 31), MD(1, 1)>>, <<MD(1, 2), MD(13, 1)>>,
     <<MD(1, 32), MD(1, 2)>>, <<MD(0, 1), MD(1, 2)>>, <<MD(1, 2), MD(1, 0)>>,
     <<Absent, MD(1, 2)>>, <<MD(1, 2), <<"1","2">>>>}

Todays ==
    {Day(y, md[1], md[2]) : y \in RedirectFirstYear..MaxTodayYear,
                            md \in {<<1, 2>>, <<9, 23>>, <<9, 24>>}}

Requests ==
    {[BlankRequest EXCEPT !.path = p, !.dev = f, !.outage = o] :
        p \in {"/scrape", "/__scheduled"}, f \in DevFlags, o \in {"none", "all"}}
    \cup {[BlankRequest EXCEPT !.path = "/scrape-historical", !.date = d, !.dev = f,
                               !.outage = o] :
             d \in DateParams, f \in DevFlags, o \in {"none", "all"}}
    \cup {[BlankRequest EXCEPT !.path = "/scrape-historical-batch", !.startDate = b[1],
                               !.endDate = b[2], !.maxDays = n, !.dev = f, !.outage = o] :
             b \in BatchParams, n \in MaxDaysParams, f \in DevFlags,
             o \in {"none", "some"}}
    \cup {[BlankRequest EXCEPT !.path = "/scrape/date/", !.tail = t, !.dev = f,
                               !.outage = o] :
             t \in TailParams, f \in DevFlags, o \in {"none", "some"}}
    \cup {[BlankRequest EXCEPT !.path = "/scrape/date-range", !.startDate = b[1],
                               !.endDate = b[2], !.dev = f, !.outage = o] :
             b \in RangeParams, f \in DevFlags, o \in {"none", "some"}}
    \cup {[BlankRequest EXCEPT !.path = "/", !.today = t, !.pick = k] :
             t \in Todays, k \in 0..(MaxTodayYear - RedirectFirstYear)}
    \cup {BlankRequest}

\* environment.IS_DEVELOPMENT is truthy
IsDevelopment(rq) == rq.dev = "true"

\* url.pathname.match(/^\/scrape\/date\/(\d{4})$/)
dateScrapeMatch(rq) == rq.path = "/scrape/date/" /\ IsDigits(rq.tail, 4)

\* mutant: the date-range endpoint is left out of the gate
isScrapingEndpointNoRange(rq) ==
    \/ rq.path \in {"/scrape", "/scrape-historical", "/scrape-historical-batch"}
    \/ dateScrapeMatch(rq)

isScrapingEndpoint(rq) ==
    \/ rq.path \in {"/scrape", "/scrape-historical", "/scrape-historical-batch"}
    \/ dateScrapeMatch(rq)
    \/ rq.path = "/scrape/date-range"

\* the request is not turned away by the gate
PassesGate(rq) == ~(isScrapingEndpoint(rq) /\ ~IsDevelopment(rq))

Status(n) == [status |-> n, location |-> Absent]

\* mutant: only the month is validated
ValidMonthDayMonthOnly(monthDay) ==
    LET month == ParseInt(Slice(monthDay, 0, 2))
    IN  ~(month < 1 \/ month > 12)

\* month < 1 || month > 12 || day < 1 || day > 31, negated
ValidMonthDay(monthDay) ==
    LET month == ParseInt(Slice(monthDay, 0, 2))
        day == ParseInt(Slice(monthDay, 2, 4))
    IN  ~(month < 1 \/ month > 12 \/ day < 1 \/ day > 31)

\* for (let year = startYear; year <= endYear; year++): `/${year}${monthDay}`
YearPaths(monthDay) ==
    [i \in 1..(ScanEndYear - ScanStartYear + 1) |->
        <<"/">> \o YearString(ScanStartYear + i - 1) \o monthDay]

RECURSIVE FlatYearPaths(_)
FlatYearPaths(monthDays) ==
    IF monthDays = <<>> THEN <<>>
    ELSE YearPaths(Head(monthDays)) \o FlatYearPaths(Tail(monthDays))

\* the while loop of batchScrapeHistoricalAnondUrls
RECURSIVE BatchDates(_, _, _, _)
BatchDates(currentDate, endDateObject, cap, dates) ==
    IF ~DateBefore(endDateObject, currentDate) /\ Len(dates) < cap
    THEN BatchDates(NextDay(currentDate), endDateObject, cap,
                    Append(dates, <<"/">> \o formatDateToString(currentDate)))
    ELSE dates

\* mutant: maxDays is not applied
batchScrapeHistoricalAnondUrlsUncapped(startDate, endDate, maxDaysParameter) ==
    [threw |-> FALSE,
     dates |-> BatchDates(parseDateFromString(startDate), parseDateFromString(endDate),
                          MsPerDay, <<>>)]

\* batchScrapeHistoricalAnondUrls up to its crawl loop: it throws when
\* startDate is after endDate, else it lists the dates to crawl
batchScrapeHistoricalAnondUrls(startDate, endDate, maxDaysParameter) ==
    LET startDateObject == parseDateFromString(startDate)
        endDateObject == parseDateFromString(endDate)
    IN  IF DateBefore(endDateObject, startDateObject)
        THEN [threw |-> TRUE, dates |-> <<>>]
        ELSE LET cap == IF maxDaysParameter # Absent THEN ParseInt(maxDaysParameter)
                        ELSE MsPerDay * DaysBetween(startDateObject, endDateObject)
             IN  [threw |-> FALSE,
                  dates |-> BatchDates(startDateObject, endDateObject, cap, <<>>)]

RECURSIVE MonthDaysFrom(_, _, _)
MonthDaysFrom(currentDate, endDate, dates) ==
    IF ~DateBefore(endDate, currentDate)
    THEN MonthDaysFrom(NextDay(currentDate), endDate,
                       Append(dates, Pad2(currentDate.month) \o Pad2(currentDate.day)))
    ELSE dates

generateMonthDaysBetween(startMonthDay, endMonthDay) ==
    LET startDate == NewDate(BaseYear, ParseInt(Slice(startMonthDay, 0, 2)) - 1,
                             ParseInt(Slice(startMonthDay, 2, 4)))
        end0 == NewDate(BaseYear, ParseInt(Slice(endMonthDay, 0, 2)) - 1,
                        ParseInt(Slice(endMonthDay, 2, 4)))
        endDate == IF DateBefore(end0, startDate)
                   THEN NewDate(BaseYear + 1, end0.month - 1, end0.day) ELSE end0
    IN  MonthDaysFrom(startDate, endDate, <<>>)

\* mutant: the window always starts at the first year
StartYearAlwaysFirst(monthNumber, dayNumber) == RedirectFirstYear

\* monthNumber > 9 || (monthNumber === 9 && dayNumber >= 24) ? 2006 : 2007
StartYearFor(monthNumber, dayNumber) ==
    IF monthNumber > AnniversaryMonth
       \/ (monthNumber = AnniversaryMonth /\ dayNumber >= AnniversaryDay)
    THEN RedirectFirstYear ELSE RedirectSecondYear

\* mutant: the query compares the year only
MatchingUrlsAnyDay(st, yearString, monthDay) ==
    {r.url : r \in {x \in st : SqlSubstr(x.url, 27, 4) = yearString}}

\* SELECT url FROM article_urls WHERE substr(url, 27, 4) = ?1 AND substr(url, 31, 4) = ?2
MatchingUrls(st, yearString, monthDay) ==
    {r.url : r \in {x \in st : /\ SqlSubstr(x.url, 27, 4) = yearString
                              /\ SqlSubstr(x.url, 31, 4) = monthDay}}

\* mutant: after a miss the following years of the window are queried as well
RECURSIVE RedirectAnswersRetry(_, _, _, _)
RedirectAnswersRetry(st, randomYear, endYear, monthDay) ==
    LET hits == MatchingUrls(st, YearString(randomYear), monthDay)
    IN  IF hits # {} THEN {[status |-> 302, location |-> u, queries |-> 1] : u \in hits}
        ELSE IF randomYear >= endYear
             THEN {[status |-> 404, location |-> Absent, queries |-> 1]}
             ELSE {[a EXCEPT !.queries = @ + 1] :
                      a \in RedirectAnswersRetry(st, randomYear + 1, endYear, monthDay)}

\* ORDER BY RANDOM() LIMIT 1, then 302 to the row or 404: what the handler may answer
RedirectAnswers(st, randomYear, endYear, monthDay) ==
    LET hits == MatchingUrls(st, YearString(randomYear), monthDay)
    IN  IF hits # {} THEN {[status |-> 302, location |-> u, queries |-> 1] : u \in hits}
        ELSE {[status |-> 404, location |-> Absent, queries |-> 1]}

\* no request is being handled and no crawl runs
HandlerIdle == pc = "idle" /\ request = NoRequest /\ crawls = <<>>

\* the handler takes a request and handles it up to its first crawl
Take(rq, resp, todo, red, q) ==
    /\ request' = rq
    /\ response' = resp
    /\ pending' = todo
    /\ redirect' = red
    /\ queries' = q
    /\ processedDates' = <<>>
    /\ failedDates' = {}
    /\ fetchLog' = <<>>
    /\ added' = 0
    /\ body' = EmptyBody
    /\ UNCHANGED <<siteVars, seedVars, rangeVars, raceVars, loopVars, store, opsLeft, pc,
                   currentUrl,
                   pagesProcessed, result, elapsed, outcome, inFlight, fetchFailed,
                   timedOut, insertCalls, lastCall, pageArticles>>

\* isScrapingEndpoint && !environment.IS_DEVELOPMENT: 403
Forbidden(rq) ==
    /\ HandlerIdle
    /\ ~PassesGate(rq)
    /\ Take(rq, Status(403), <<>>, NoRedirect, 0)

\* /scrape and /__scheduled: scrapeAnondUrls
ScrapeNow(rq) ==
    /\ HandlerIdle
    /\ PassesGate(rq) /\ rq.path \in {"/scrape", "/__scheduled"}
    /\ Take(rq, NoResponse, <<FrontPath>>, NoRedirect, 0)

\* /scrape-historical
ScrapeHistorical(rq) ==
    /\ HandlerIdle
    /\ PassesGate(rq) /\ rq.path = "/scrape-historical"
    /\ IF rq.date = Absent \/ ~IsDigits(rq.date, 8)
       THEN Take(rq, Status(400), <<>>, NoRedirect, 0)
       ELSE Take(rq, NoResponse, <<(<<"/">> \o rq.date)>>, NoRedirect, 0)

\* /scrape-historical-batch
ScrapeHistoricalBatch(rq) ==
    /\ HandlerIdle
    /\ PassesGate(rq) /\ rq.path = "/scrape-historical-batch"
    /\ IF rq.startDate = Absent \/ rq.endDate = Absent
          \/ ~IsDigits(rq.startDate, 8) \/ ~IsDigits(rq.endDate, 8)
       THEN Take(rq, Status(400), <<>>, NoRedirect, 0)
       ELSE LET b == batchScrapeHistoricalAnondUrls(rq.startDate, rq.endDate, rq.maxDays)
            IN  IF b.threw THEN Take(rq, Status(500), <<>>, NoRedirect, 0)
                ELSE Take(rq, NoResponse, b.dates, NoRedirect, 0)

\* /scrape/date/MMDD
ScrapeDate(rq) ==
    /\ HandlerIdle
    /\ PassesGate(rq) /\ dateScrapeMatch(rq)
    /\ IF ~ValidMonthDay(rq.tail)
       THEN Take(rq, Status(400), <<>>, NoRedirect, 0)
       ELSE Take(rq, NoResponse, YearPaths(rq.tail), NoRedirect, 0)

\* /scrape/date-range
ScrapeDateRange(rq) ==
    /\ HandlerIdle
    /\ PassesGate(rq) /\ rq.path = "/scrape/date-range"
    /\ IF rq.startDate = Absent \/ rq.endDate = Absent
          \/ ~IsDigits(rq.startDate, 4) \/ ~IsDigits(rq.endDate, 4)
          \/ ~ValidMonthDay(rq.startDate) \/ ~ValidMonthDay(rq.endDate)
       THEN Take(rq, Status(400), <<>>, NoRedirect, 0)
       ELSE Take(rq, NoResponse,
                 FlatYearPaths(generateMonthDaysBetween(rq.startDate, rq.endDate)),
                 NoRedirect, 0)

\* /: redirect to a random article of this day in an earlier year
RandomRedirect(rq) ==
    /\ HandlerIdle
    /\ rq.path = "/"
    /\ LET currentMonthDay == Pad2(rq.today.month) \o Pad2(rq.today.day)
           startYear == StartYearFor(rq.today.month, rq.today.day)
           endYear == rq.today.year - 1
           numberOfYears == endYear - startYear + 1
           randomYear == startYear + rq.pick
       IN  IF startYear > endYear
           THEN /\ rq.pick = 0
                /\ Take(rq, Status(404), <<>>,
                        [startYear |-> startYear, endYear |-> endYear, randomYear |-> 0], 0)
           ELSE /\ rq.pick < numberOfYears
                /\ \E a \in RedirectAnswers(store, randomYear, endYear, currentMonthDay) :
                       Take(rq, [status |-> a.status, location |-> a.location], <<>>,
                            [startYear |-> startYear, endYear |-> endYear,
                             randomYear |-> randomYear], a.queries)

\* any other path: the banner text
Banner(rq) ==
    /\ HandlerIdle
    /\ rq.path \notin {"/scrape", "/__scheduled", "/scrape-historical",
                       "/scrape-historical-batch", "/scrape/date-range", "/"}
    /\ ~dateScrapeMatch(rq)
    /\ Take(rq, Status(200), <<>>, NoRedirect, 0)

\* the status line of a listing that is not served during an outage
OutageStatusLine == <<"5","0","3"," ","D","o","w","n">>

\* error.message of the Error the worker's crawl throws on a response that is
\* not ok (the literal's Japanese words are written in Latin letters here)
ScrapeFailureMessage(statusLine) ==
    <<"s","c","r","a","p","e"," ","f","a","i","l","e","d",":"," ">> \o statusLine

\* catch (error): JSON.stringify({ error: errorMessage })
ErrorBody(errorMessage) == errorMessage

\* mutant: a crawl that throws ends every request
AbortsOnFailureEverywhere(rq) == TRUE

\* a crawl that throws ends the request with 500 on these paths; on the others
\* the failure is recorded and the loop goes on
AbortsOnFailure(rq) == rq.path \in {"/scrape", "/__scheduled", "/scrape-historical"}

\* one crawl of the handler's loop: scrapeAnondUrls or scrapeHistoricalAnondUrls
HandlerCrawl ==
    /\ request # NoRequest /\ response.status = 0 /\ pending # <<>>
    /\ LET path == Head(pending)
           crawl == CrawlOf(store, path, chainLen)
       IN  IF FetchFails(request.outage, path)
           THEN /\ fetchLog' = Append(fetchLog, Origin \o path)
                /\ IF AbortsOnFailure(request)
                   THEN response' = Status(500) /\ pending' = <<>>
                        /\ body' = [body EXCEPT !.error =
                                        ErrorBody(ScrapeFailureMessage(OutageStatusLine))]
                        /\ UNCHANGED failedDates
                   ELSE response' = response /\ pending' = Tail(pending)
                        /\ failedDates' = failedDates \cup {path}
                        /\ UNCHANGED body
                /\ UNCHANGED <<store, added, processedDates>>
           ELSE /\ fetchLog' = fetchLog \o crawl.fetched
                /\ store' = crawl.store
                /\ added' = added + Len(crawl.result.newUrls)
                /\ body' =
                       [results |-> Append(body.results, crawl.result),
                        totalNewUrls |-> body.totalNewUrls + Len(crawl.result.newUrls),
                        totalExistingUrls |->
                            body.totalExistingUrls + crawl.result.existingUrlsCount,
                        totalPagesScrapped |->
                            body.totalPagesScrapped + crawl.result.pagesScraped,
                        error |-> Absent]
                /\ processedDates' = Append(processedDates, path)
                /\ pending' = Tail(pending)
                /\ UNCHANGED <<response, failedDates>>
    /\ UNCHANGED <<siteVars, seedVars, rangeVars, raceVars, loopVars, opsLeft, pc, currentUrl,
                   pagesProcessed,
                   result, elapsed, outcome, inFlight, fetchFailed, timedOut, insertCalls,
                   lastCall, pageArticles, request, redirect, queries>>

\* the loop is through: new Response(JSON.stringify(...))
HandlerRespond ==
    /\ request # NoRequest /\ response.status = 0 /\ pending = <<>>
    /\ response' = Status(200)
    /\ UNCHANGED <<siteVars, seedVars, rangeVars, raceVars, loopVars, store, opsLeft, pc,
                   currentUrl,
                   pagesProcessed, result, elapsed, outcome, fetchLog, inFlight, fetchFailed,
                   timedOut, insertCalls, added, lastCall, pageArticles, request, redirect,
                   queries, pending, processedDates, failedDates, body>>

\* the client has the response; the locals of the request are gone
HandlerReturn ==
    /\ request # NoRequest /\ response.status # 0
    /\ request' = NoRequest
    /\ response' = NoResponse
    /\ redirect' = NoRedirect
    /\ queries' = 0
    /\ pending' = <<>>
    /\ processedDates' = <<>>
    /\ failedDates' = {}
    /\ fetchLog' = <<>>
    /\ added' = 0
    /\ body' = EmptyBody
    /\ UNCHANGED <<siteVars, seedVars, rangeVars, raceVars, loopVars, store, opsLeft, pc,
                   currentUrl,
                   pagesProcessed, result, elapsed, outcome, inFlight, fetchFailed,
                   timedOut, insertCalls, lastCall, pageArticles>>

HttpNext ==
    \/ \E rq \in Requests : Forbidden(rq)
    \/ \E rq \in Requests : ScrapeNow(rq)
    \/ \E rq \in Requests : ScrapeHistorical(rq)
    \/ \E rq \in Requests : ScrapeHistoricalBatch(rq)
    \/ \E rq \in Requests : ScrapeDate(rq)
    \/ \E rq \in Requests : ScrapeDateRange(rq)
    \/ \E rq \in Requests : RandomRedirect(rq)
    \/ \E rq \in Requests : Banner(rq)
    \/ HandlerCrawl
    \/ HandlerRespond
    \/ HandlerReturn

HttpSpec == Init /\ [][HttpNext]_vars

----------------------------------------------------------------------------
(* Two overlapping crawl invocations persisting the records of their pages:
   the per-record path of the worker (index.ts:619-639, the same statements as
   the older scraper) and the batch insert of the shared driver *)

Invocations == {1, 2}

\* an invocation that has extracted the records of page k and starts persisting
StartedCrawl(kind, k) ==
    [kind |-> kind, articles |-> CheerioArticles(SectionsOf(k)), index |-> 1,
     phase |-> "select", newUrls |-> 0, pageExistingUrls |-> 0, errors |-> 0,
     reported |-> <<>>]

\* mutant: the table has no UNIQUE constraint on url
PlainInsertNoConstraint(st, a) == [store |-> st \cup {PlainRow(a)}, failed |-> FALSE]

\* INSERT INTO article_urls (url, title) VALUES (?, ?): refused when the url is taken
PlainInsert(st, a) ==
    IF UrlTaken(st, a.url) THEN [store |-> st, failed |-> TRUE]
    ELSE [store |-> st \cup {PlainRow(a)}, failed |-> FALSE]

\* for (const article of pageArticles): on to the next record, or the page is through
Advance(c) ==
    [c EXCEPT !.index = @ + 1,
              !.phase = IF c.index + 1 > Len(c.articles) THEN "done" ELSE "select"]

RaceInit ==
    /\ chainLen \in 1..MaxChain
    /\ store \in {{}, {PlainRow([url |-> Permalink(2), title |-> Glyph])}}
    /\ crawls \in [Invocations -> {StartedCrawl(kind, k) :
                                      kind \in {"each", "batch"}, k \in 1..chainLen}]
    /\ scrape_progress = {}
    /\ lastSeed = NoSeed
    /\ rangeCall = NoRangeCall
    /\ Quiescent
    /\ loopBack = 0

raceFrame == <<siteVars, seedVars, rangeVars, handlerVars, loopVars, opsLeft, pc, currentUrl,
               pagesProcessed,
               result, elapsed, outcome, fetchLog, inFlight, fetchFailed, timedOut,
               insertCalls, added, lastCall, pageArticles>>

\* SELECT url FROM article_urls WHERE url = ?
RaceSelect(p) ==
    /\ crawls[p].kind = "each" /\ crawls[p].phase = "select"
    /\ LET c == crawls[p]
           article == c.articles[c.index]
       IN  crawls' = [crawls EXCEPT ![p] =
                         IF UrlTaken(store, article.url)
                         THEN Advance([c EXCEPT !.pageExistingUrls = @ + 1])
                         ELSE [c EXCEPT !.phase = "insert"]]
    /\ UNCHANGED <<store, raceFrame>>

\* result.newUrls.push(article) follows the INSERT; a refused INSERT throws
\* past it into the catch block
AfterInsert(c, failed) ==
    IF failed THEN [c EXCEPT !.errors = @ + 1]
    ELSE [c EXCEPT !.newUrls = @ + 1, !.reported = Append(@, c.articles[c.index])]

\* the INSERT after a SELECT that found nothing; its error is caught and logged
RaceInsert(p) ==
    /\ crawls[p].kind = "each" /\ crawls[p].phase = "insert"
    /\ LET c == crawls[p]
           ins == PlainInsert(store, c.articles[c.index])
       IN  /\ store' = ins.store
           /\ crawls' = [crawls EXCEPT ![p] =
                            Advance(AfterInsert(c, ins.failed))]
    /\ UNCHANGED raceFrame

\* batchInsertUrls: one INSERT OR IGNORE statement for the page
RaceBatch(p) ==
    /\ crawls[p].kind = "batch" /\ crawls[p].phase = "select"
    /\ LET c == crawls[p]
           ins == batchInsertUrls(store, c.articles)
       IN  /\ store' = ins.store
           /\ crawls' = [crawls EXCEPT ![p] =
                            [c EXCEPT !.phase = "done", !.index = Len(c.articles) + 1,
                                      !.newUrls = ins.rowsAffected,
                                      !.reported = Slice(c.articles, 0, ins.rowsAffected),
                                      !.pageExistingUrls = Len(c.articles) - ins.rowsAffected]]
    /\ UNCHANGED raceFrame

RaceNext ==
    \E p \in Invocations : RaceSelect(p) \/ RaceInsert(p) \/ RaceBatch(p)

RaceSpec == RaceInit /\ [][RaceNext]_vars

----------------------------------------------------------------------------
(* The per-record loop of the worker's driver (index.ts:619-661) on one page, *)
(* with statements of the database failing                                    *)

\* one invocation that has extracted the records of page k
StartedPage(k) ==
    StartedCrawl("each", k)
        @@ [page |-> k, existingUrlsCount |-> 0, pagesScraped |-> 0, currentUrl |-> PageUrl(k)]

PersistInit ==
    /\ chainLen \in 1..MaxChain
    /\ store \in {{}, {PlainRow([url |-> Permalink(2), title |-> Glyph])}}
    /\ crawls \in {<<StartedPage(k)>> : k \in 1..chainLen}
    /\ scrape_progress = {}
    /\ lastSeed = NoSeed
    /\ rangeCall = NoRangeCall
    /\ Quiescent
    /\ loopBack = 0

\* mutant: the catch block throws the error on
CatchRecordErrorRethrows(c) == [c EXCEPT !.phase = "threw"]

\* catch (error): console.error(...), and the for loop goes on
CatchRecordError(c) == Advance([c EXCEPT !.errors = @ + 1])

\* SELECT url FROM article_urls WHERE url = ?, which may throw
PersistSelect(dbFails) ==
    /\ crawls[1].phase = "select"
    /\ LET c == crawls[1]
           article == c.articles[c.index]
       IN  crawls' = [crawls EXCEPT ![1] =
                         IF dbFails THEN CatchRecordError(c)
                         ELSE IF UrlTaken(store, article.url)
                         THEN Advance([c EXCEPT !.pageExistingUrls = @ + 1])
                         ELSE [c EXCEPT !.phase = "insert"]]
    /\ UNCHANGED <<store, raceFrame>>

\* INSERT INTO article_urls (url, title) VALUES (?, ?), which may throw
PersistInsert(dbFails) ==
    /\ crawls[1].phase = "insert"
    /\ LET c == crawls[1]
           ins == IF dbFails THEN [store |-> store, failed |-> TRUE]
                  ELSE PlainInsert(store, c.articles[c.index])
       IN  /\ store' = ins.store
           /\ crawls' = [crawls EXCEPT ![1] =
                            IF ins.failed THEN CatchRecordError(c)
                            ELSE Advance([c EXCEPT !.newUrls = @ + 1])]
    /\ UNCHANGED raceFrame

\* after the for loop: the counters, then the next link (index.ts:647-661)
PersistPageDone ==
    /\ crawls[1].phase = "done"
    /\ crawls' = [crawls EXCEPT ![1] =
                     [@ EXCEPT !.existingUrlsCount = @ + crawls[1].pageExistingUrls,
                               !.pagesScraped = @ + 1,
                               !.currentUrl = CheerioNextUrl(PageOf(crawls[1].page, chainLen)),
                               !.phase = "counted"]]
    /\ UNCHANGED <<store, raceFrame>>

PersistNext ==
    \/ \E dbFails \in BOOLEAN : PersistSelect(dbFails)
    \/ \E dbFails \in BOOLEAN : PersistInsert(dbFails)
    \/ PersistPageDone

PersistSpec == PersistInit /\ [][PersistNext]_vars

----------------------------------------------------------------------------
(* The checkpoint table scrape_progress and the init-progress command of the *)
(* CLI (cli/index.ts:88-289)                                                 *)

\* --start-year and --end-year
SeedYears == (SeedFirstYear - 1)..SeedFirstYear

\* the dates one iteration of the year loop pushes (cli/index.ts:185-201)
SeedDatesOfYear(year) ==
    LET startMonth == IF year = SeedFirstYear THEN SeedFirstMonth ELSE 1
        startDay == IF year = SeedFirstYear THEN SeedFirstDay ELSE 1
    IN  UNION {{YearString(year) \o Pad2(month) \o Pad2(day) :
                   day \in (IF month = startMonth /\ year = SeedFirstYear
                            THEN startDay ELSE 1)..NewDate(year, month, 0).day} :
               month \in startMonth..12}

\* the dates of all years, as the loops build them
SeedDates(startYear, endYear) == UNION {SeedDatesOfYear(year) : year \in startYear..endYear}

\* the lists of the year ranges, built once
SeedDatesTable == [range \in SeedYears \X SeedYears |-> SeedDates(range[1], range[2])]

\* INSERT ... (date): the other columns take their defaults (schema.sql:31-38)
CheckpointRow(date) ==
    [date |-> date, status |-> "pending", last_page_url |-> Null, pages_scraped |-> 0,
     urls_found |-> 0]

\* mutant: INSERT OR REPLACE, a seeded date takes the place of its row
InsertOrReplaceDates(table, dates) ==
    {r \in table : r.date \notin dates} \cup {CheckpointRow(date) : date \in dates}

\* INSERT OR IGNORE INTO scrape_progress (date) VALUES (?), ...: date is the
\* primary key; the batches of 100 together insert every date of the list
InsertOrIgnoreDates(table, dates) ==
    table \cup {CheckpointRow(date) : date \in dates \ {r.date : r \in table}}

\* mutant: the last day of the range is left out
initProgressAllDatesShort(table, startYear, endYear) ==
    InsertOrIgnoreDates(table, SeedDatesTable[<<startYear, endYear>>]
                                   \ {YearString(endYear) \o Pad2(12) \o Pad2(31)})

initProgressAllDates(table, startYear, endYear) ==
    InsertOrIgnoreDates(table, SeedDatesTable[<<startYear, endYear>>])

\* SELECT DISTINCT substr(url, 27, 8) as date FROM article_urls WHERE length(url) >= 35
ExistingDates(st) ==
    {SqlSubstr(r.url, DateFrom, DateLength) : r \in {x \in st : Len(x.url) >= MinDatedUrlLength}}

\* mutant: the archive is not consulted
initProgressWithAnalysisSeedsAll(table, st, startYear, endYear) ==
    InsertOrIgnoreDates(table, SeedDatesTable[<<startYear, endYear>>])

initProgressWithAnalysis(table, st, startYear, endYear) ==
    LET existingDates == ExistingDates(st)
        missingDates == {d \in SeedDatesTable[<<startYear, endYear>>] : d \notin existingDates}
    IN  IF missingDates = {} THEN table ELSE InsertOrIgnoreDates(table, missingDates)

\* the date the crawl driver works on
CrawlDate == YearString(SeedFirstYear) \o Pad2(12) \o Pad2(31)

\* the archive before the CLI runs: empty, or what a crawl of the listings left
ArchivedBefore ==
    {{}, InsertOrIgnore({}, <<[url |-> Origin \o <<"/">> \o CrawlDate \o TimeOf(1),
                               title |-> <<"Z">>],
                              [url |-> Origin \o <<"/">> \o YearString(SeedFirstYear - 1)
                                           \o Pad2(1) \o Pad2(1) \o TimeOf(2),
                               title |-> <<"A">>],
                              [url |-> Origin \o <<"/","x">>, title |-> <<"A">>]>>).store}

SeedInit ==
    /\ chainLen = 1
    /\ store \in ArchivedBefore
    /\ crawls = <<>>
    /\ scrape_progress = {}
    /\ lastSeed = NoSeed
    /\ rangeCall = NoRangeCall
    /\ Quiescent
    /\ loopBack = 0

seedFrame == <<siteVars, rangeVars, raceVars, handlerVars, loopVars, auxCall, store, opsLeft,
               pc, currentUrl, pagesProcessed, result, elapsed, outcome, fetchLog, inFlight,
               fetchFailed, timedOut, insertCalls, added, pageArticles>>

\* init-progress --start-year startYear --end-year endYear [--analyze]
InitProgress(startYear, endYear, analyze) ==
    /\ scrape_progress' =
           IF analyze THEN initProgressWithAnalysis(scrape_progress, store, startYear, endYear)
           ELSE initProgressAllDates(scrape_progress, startYear, endYear)
    /\ lastSeed' =
           LET op == IF analyze THEN "missing" ELSE "range"
           IN  [op |-> op, startYear |-> startYear, endYear |-> endYear,
                repeat |-> /\ lastSeed.op = op /\ lastSeed.startYear = startYear
                           /\ lastSeed.endYear = endYear,
                runs |-> (lastSeed.runs + 1) % 2]
    /\ UNCHANGED seedFrame

\* update(date, status, resumeCursor, pagesCrawled, recordsFound) after a page
\* of the date's listing: the caller passes the prior counters plus this
\* page's increment; a date that is completed is not selected again
UpdateCheckpoint(status, records) ==
    /\ \E r \in scrape_progress :
          /\ r.date = CrawlDate
          /\ r.status # "completed"
          /\ r.pages_scraped < MaxCheckpointPages
          /\ scrape_progress' =
                 (scrape_progress \ {r})
                     \cup {[r EXCEPT !.status = status,
                                     !.last_page_url = IF status = "completed" THEN Null
                                                       ELSE PageUrl(r.pages_scraped + 2),
                                     !.pages_scraped = @ + 1,
                                     !.urls_found = @ + records]}
    /\ UNCHANGED <<lastSeed, seedFrame>>

SeedNext ==
    \/ \E startYear, endYear \in SeedYears, analyze \in BOOLEAN :
           InitProgress(startYear, endYear, analyze)
    \/ \E status \in {"in_progress", "completed"}, records \in 0..1 :
           UpdateCheckpoint(status, records)

SeedSpec == SeedInit /\ [][SeedNext]_vars

----------------------------------------------------------------------------
(* generateMonthDaysBetween (index.ts:671-699, scraper.ts:141-169) called on *)
(* month/day pairs that pass the range check of /scrape/date-range          *)

\* MMDD arguments: month 1..12 and day 1..31, as the callers validate them
MonthDayArguments ==
    {MD(1, 1), MD(1, 2), MD(2, 28), MD(2, 29), MD(3, 1), MD(4, 30), MD(4, 31),
     MD(12, 30), MD(12, 31)}

RangeInit ==
    /\ chainLen = 1
    /\ store = {}
    /\ crawls = <<>>
    /\ scrape_progress = {}
    /\ lastSeed = NoSeed
    /\ Quiescent
    /\ loopBack = 0
    /\ rangeCall \in {[NoRangeCall EXCEPT !.startMonthDay = a, !.endMonthDay = b,
                                            !.phase = "called"] :
                         a, b \in MonthDayArguments}

\* lines 672-689: the two dates in the base year, endDate moved to the next
\* year when startDate is later
RangeEnter ==
    /\ rangeCall.phase = "called"
    /\ LET startDate == NewDate(BaseYear, ParseInt(Slice(rangeCall.startMonthDay, 0, 2)) - 1,
                                ParseInt(Slice(rangeCall.startMonthDay, 2, 4)))
           end0 == NewDate(BaseYear, ParseInt(Slice(rangeCall.endMonthDay, 0, 2)) - 1,
                           ParseInt(Slice(rangeCall.endMonthDay, 2, 4)))
           endDate == IF DateBefore(end0, startDate)
                      THEN NewDate(BaseYear + 1, end0.month - 1, end0.day) ELSE end0
       IN  rangeCall' = [rangeCall EXCEPT !.currentDate = startDate, !.endDate = endDate,
                                          !.phase = "loop"]
    /\ UNCHANGED <<siteVars, seedVars, raceVars, handlerVars, loopVars, auxCall, store,
                   opsLeft, pc, currentUrl, pagesProcessed, result, elapsed, outcome,
                   fetchLog, inFlight, fetchFailed, timedOut, insertCalls, added,
                   pageArticles>>

\* one iteration of while (currentDate <= endDate), or the return after it
RangeStep ==
    /\ rangeCall.phase = "loop"
    /\ rangeCall' =
           IF ~DateBefore(rangeCall.endDate, rangeCall.currentDate)
           THEN [rangeCall EXCEPT
                    !.monthDays = Append(@, Pad2(rangeCall.currentDate.month)
                                            \o Pad2(rangeCall.currentDate.day)),
                    !.currentDate = NextDay(@)]
           ELSE [rangeCall EXCEPT !.phase = "returned"]
    /\ UNCHANGED <<siteVars, seedVars, raceVars, handlerVars, loopVars, auxCall, store,
                   opsLeft, pc, currentUrl, pagesProcessed, result, elapsed, outcome,
                   fetchLog, inFlight, fetchFailed, timedOut, insertCalls, added,
                   pageArticles>>

RangeNext == RangeEnter \/ RangeStep

RangeSpec == RangeInit /\ [][RangeNext]_vars

----------------------------------------------------------------------------
(* The crawl drivers on a site whose pagination links may form a cycle; no     *)
(* page budget.  The loop reads none of its counters then, so they are kept    *)
(* only up to MaxCycleCount, and the clock only up to the deadline.            *)

\* the pager of page k when the last page carries a next link back to page back
CyclicPagerOf(k, len, back) ==
    PagerOf(k, len)
    \o (IF k = len /\ back # 0 THEN <<Section(PagePath(back), NextText)>> ELSE <<>>)

CyclicPageAt(url, len, back) ==
    LET k == CHOOSE n \in 1..len : PageUrl(n) = url
    IN  [sections |-> SectionsOf(k), pager |-> CyclicPagerOf(k, len, back)]

UpTo(n, cap) == IF n > cap THEN cap ELSE n

\* scrapeAnondUrlsRecursive(pageUrl) has initialised its locals
CycleInit ==
    /\ chainLen \in 1..MaxChain
    /\ loopBack \in 0..chainLen
    /\ store = {}
    /\ crawls = <<>>
    /\ scrape_progress = {}
    /\ lastSeed = NoSeed
    /\ rangeCall = NoRangeCall
    /\ opsLeft = 0
    /\ driver \in Drivers
    /\ maxPages = NoBudget
    /\ currentUrl = StartUrl
    /\ pc = "loop"
    /\ pagesProcessed = 0 /\ result = EmptyResult /\ elapsed = 0
    /\ outcome = NoOutcome /\ fetchLog = <<>> /\ inFlight = 0
    /\ fetchFailed = FALSE /\ timedOut = FALSE /\ insertCalls = 0 /\ added = 0
    /\ lastCall = NoCall /\ pageArticles = <<>>
    /\ request = NoRequest /\ response = NoResponse /\ redirect = NoRedirect
    /\ queries = 0 /\ pending = <<>> /\ processedDates = <<>> /\ failedDates = {}
    /\ body = EmptyBody

\* const response = await fetch(currentUrl)
CycleIssueFetch ==
    /\ pc = "loop" /\ driver \in Drivers
    /\ LoopCond /\ ~DeadlinePassed
    /\ fetchLog' = <<currentUrl>>
    /\ inFlight' = inFlight + 1
    /\ pc' = "fetching"
    /\ UNCHANGED <<siteVars, seedVars, rangeVars, handlerVars, raceVars, loopVars, store,
                   opsLeft, currentUrl, pagesProcessed, result, elapsed, outcome,
                   fetchFailed, timedOut, insertCalls, added, auxCall, pageArticles>>

\* response.ok: extract, persist, count, follow the next link
CycleFetchOk(ms) ==
    /\ pc = "fetching" /\ driver \in Drivers
    /\ LET page == CyclicPageAt(currentUrl, chainLen, loopBack)
           it == IF driver = "shared" THEN SharedPage(store, result, page)
                 ELSE WorkerPage(store, result, page)
       IN  /\ store' = it.store
           /\ result' = [newUrls |-> it.result.newUrls,
                         existingUrlsCount |->
                             UpTo(it.result.existingUrlsCount, MaxCycleCount),
                         pagesScraped |-> UpTo(it.result.pagesScraped, MaxCycleCount)]
           /\ added' = added + (Cardinality(it.store) - Cardinality(store))
           /\ currentUrl' = CheerioNextUrl(page)
           /\ pageArticles' = it.pageArticles
    /\ insertCalls' = 0
    /\ pagesProcessed' = UpTo(pagesProcessed + 1, MaxCycleCount)
    /\ inFlight' = inFlight - 1
    /\ elapsed' = UpTo(elapsed + ms, TIMEOUT_MS + 1)
    /\ pc' = AfterPage(driver)
    /\ UNCHANGED <<siteVars, seedVars, rangeVars, handlerVars, raceVars, loopVars, opsLeft,
                   outcome, fetchLog, fetchFailed, timedOut, auxCall>>

CycleNext ==
    \/ CycleIssueFetch
    \/ \E ms \in FetchDurations : CycleFetchOk(ms)
    \/ Delay
    \/ LoopExit
    \/ LoopTimeout

\* the loop's own steps are taken, the delay's timer fires, and every awaited
\* fetch returns with the store calls of its page (the driver does not stay at
\* its await for ever)
CycleSpec ==
    /\ CycleInit /\ [][CycleNext]_vars
    /\ WF_vars(CycleIssueFetch) /\ WF_vars(Delay)
    /\ WF_vars(LoopExit) /\ WF_vars(LoopTimeout)
    /\ []<>(pc # "fetching")

----------------------------------------------------------------------------
(* Ground truth of the site, for stating the properties *)

PageIndex(url) == CHOOSE k \in 1..chainLen : PageUrl(k) = url

\* where the pager of page k points
SiteNext(k) == IF k < chainLen THEN PageUrl(k + 1) ELSE Absent

\* the permalinks listed on page k
ListedOn(k) == {Permalink(k), Permalink(k + 1)}

CrawlDone == pc = "done" /\ outcome.op = "crawl"

\* the handler has answered the request it holds
Responded == request # NoRequest /\ response.status # 0

\* today's month/day lies before September 24
BeforeAnniversary(dt) == dt.month < 9 \/ (dt.month = 9 /\ dt.day < 24)

\* a stored permalink n of the given year that carries today's month/day
StoredForToday(n, year) ==
    /\ UrlTaken(store, Permalink(n))
    /\ YearOf(n) = YearString(year)
    /\ MonthDayOf(n) = Pad2(request.today.month) \o Pad2(request.today.day)

\* the five scraping endpoints
GatedPath(rq) ==
    \/ rq.path \in {"/scrape", "/scrape-historical", "/scrape-historical-batch",
                    "/scrape/date-range"}
    \/ rq.path = "/scrape/date/" /\ IsDigits(rq.tail, 4)

\* a four-digit MMDD whose month is outside 1..12 or whose day is outside 1..31
OutOfRange(md) ==
    ParseInt(SubSeq(md, 1, 2)) \notin 1..12 \/ ParseInt(SubSeq(md, 3, 4)) \notin 1..31

MalformedDateInput(rq) ==
    \/ rq.path = "/scrape-historical" /\ (rq.date = Absent \/ ~IsDigits(rq.date, 8))
    \/ rq.path = "/scrape/date/" /\ IsDigits(rq.tail, 4) /\ OutOfRange(rq.tail)
    \/ rq.path = "/scrape/date-range"
       /\ IsDigits(rq.startDate, 4) /\ IsDigits(rq.endDate, 4)
       /\ (OutOfRange(rq.startDate) \/ OutOfRange(rq.endDate))

\* nothing was crawled for the request: no page fetched, no row added
NothingCrawled == fetchLog = <<>> /\ added = 0 /\ pending = <<>> /\ processedDates = <<>>

\* what page k shows: article k under the text "A", article k+1 under blank text
ExpectedRecords(k) ==
    <<[url |-> Permalink(k), title |-> <<"A">>], [url |-> Permalink(k + 1), title |-> Glyph]>>

\* the page whose records pageArticles holds
LastPage ==
    IF driver = "light" THEN PageIndex(currentUrl) ELSE PageIndex(fetchLog[pagesProcessed])

\* every container holds one anchor with a relative 14-digit permalink, as the
\* site writes its listings
WellFormedPage(page) ==
    \A i \in 1..Len(page.sections) : IsPermalinkPath(page.sections[i].href)

\* the request is a well-formed /scrape-historical-batch whose range is not empty
BatchAccepted ==
    /\ request # NoRequest /\ request.dev = "true"
    /\ request.path = "/scrape-historical-batch"
    /\ request.startDate # Absent /\ request.endDate # Absent
    /\ IsDigits(request.startDate, 8) /\ IsDigits(request.endDate, 8)
    /\ ParseInt(request.startDate) <= ParseInt(request.endDate)

\* the listing url of the i-th calendar day counted from the request's startDate
BatchDayUrl(i) ==
    Origin \o <<"/">>
           \o formatDateToString(AddDays(parseDateFromString(request.startDate), i - 1))

\* the crawl of the listing at url failed in this request
CrawlFailed(url) == \E path \in failedDates : Origin \o path = url

\* the request is /scrape/date/MMDD in development mode with month 1..12, day 1..31
DateScrapeAccepted ==
    /\ request # NoRequest /\ request.dev = "true"
    /\ request.path = "/scrape/date/" /\ IsDigits(request.tail, 4)
    /\ ~OutOfRange(request.tail)

\* the years the site has operated, as the endpoint scans them
ScanYears == ScanStartYear..ScanEndYear

YearPath(year) == <<"/">> \o YearString(year) \o request.tail

\* the sum of f over the elements of a sequence
RECURSIVE SumOver(_, _)
SumOver(f(_), seq) == IF seq = <<>> THEN 0 ELSE f(Head(seq)) + SumOver(f, Tail(seq))

NewUrlsOf(r) == Len(r.newUrls)
ExistingOf(r) == r.existingUrlsCount
PagesOf(r) == r.pagesScraped

\* a month/day that exists in the calendar (February 29 included)
CalendarMonthDay(md) ==
    LET month == ParseInt(SubSeq(md, 1, 2))
        day == ParseInt(SubSeq(md, 3, 4))
    IN  month \in 1..12 /\ day \in 1..DaysInMonth(BaseYear, month)

\* the month/day that follows md in the calendar, December 31 wrapping to
\* January 1; February 28 is followed by February 29 or by March 1
FollowsInCalendar(md, next) ==
    \E y \in {BaseYear, BaseYear + 1} :
        LET d == NextDay(Day(y, ParseInt(SubSeq(md, 1, 2)), ParseInt(SubSeq(md, 3, 4))))
        IN  next = Pad2(d.month) \o Pad2(d.day)

\* init-progress ran in this step (runs counts the runs modulo 2)
SeedStep == lastSeed'.runs # lastSeed.runs

\* the calendar date lies before the site's first day, September 24, 2006
BeforeSiteStart(y, m, d) ==
    \/ y < SeedFirstYear
    \/ y = SeedFirstYear /\ m < SeedFirstMonth
    \/ y = SeedFirstYear /\ m = SeedFirstMonth /\ d < SeedFirstDay

\* the calendar dates of the years startYear..endYear from the site's first day on
SiteDates(startYear, endYear) ==
    UNION {UNION {{D8(y, m, d) : d \in {x \in 1..DaysInMonth(y, m) : ~BeforeSiteStart(y, m, x)}} :
                  m \in 1..12} : y \in startYear..endYear}

SiteDatesTable == [range \in SeedYears \X SeedYears |-> SiteDates(range[1], range[2])]

\* the dates that have a checkpoint row
SeededDates(table) == {r.date : r \in table}

\* an archived record's url embeds the date: /YYYYMMDD... after the origin
Archived(date) ==
    \E r \in store : /\ Len(r.url) >= Len(Origin) + 1 + Len(date)
                     /\ SubSeq(r.url, Len(Origin) + 2, Len(Origin) + 1 + Len(date)) = date

\* the driver is at its loop condition after at least one page
AfterAPage == driver \in Drivers /\ pc = "loop" /\ pagesProcessed >= 1

\* the next-page link of the page fetched last, as the site serves it
LastNextLink == SiteNext(PageIndex(fetchLog[Len(fetchLog)]))

\* the page budget allows another page
BudgetLeft == maxPages = NoBudget \/ maxPages = 0 \/ pagesProcessed < maxPages

\* part occurs in text
Contains(text, part) ==
    \E i \in 0..(Len(text) - Len(part)) : SubSeq(text, i + 1, i + Len(part)) = part

\* the request was answered 500 because a crawl's fetch threw
FetchErrorAnswered ==
    /\ request # NoRequest /\ response.status = 500
    /\ fetchLog # <<>> /\ request.outage # "none"

\* the pages of the crawl whose fetch, extraction and persistence completed
CompletedPages == Len(fetchLog) - inFlight - (IF fetchFailed THEN 1 ELSE 0)

\* the number of records the site lists on the first n pages the crawl fetched
RECURSIVE RecordsOnPages(_)
RecordsOnPages(n) ==
    IF n = 0 THEN 0
    ELSE RecordsOnPages(n - 1) + Len(ExpectedRecords(PageIndex(fetchLog[n])))

\* the records the overlapping invocations have reported as new so far
RECURSIVE ReportedNew(_, _)
ReportedNew(f, n) == IF n = 0 THEN 0 ELSE ReportedNew(f, n - 1) + f[n].newUrls

----------------------------------------------------------------------------
(* Properties *)

\* C1: the store never holds two rows with the same url, and a stored row is
\* never changed or removed by a later step: its title stays that of the
\* first insert.
C1_UniqueAndImmutable ==
    /\ [](\A r1, r2 \in store : r1.url = r2.url => r1 = r2)
    /\ [][\A r \in store : r \in store']_vars

\* a crawl met, on its second page, a url it had stored from its first page
\* under another title
C1_Witness ==
    /\ CrawlDone /\ driver = "shared"
    /\ result.pagesScraped >= 2 /\ result.existingUrlsCount >= 1
    /\ \E r \in store : r.url = Permalink(2) /\ r.title = Glyph

\* C2: a direct call of batchInsertUrls with N records of distinct urls, none
\* stored before, returned N; the same set given again returns 0 and leaves
\* the store as it is.
C2_Idempotent ==
    lastCall.repeat =>
        /\ lastCall.prevReturned = Len(lastCall.articles)
        /\ lastCall.returned = 0
        /\ ~lastCall.changed

C2_Witness == lastCall.repeat /\ Len(lastCall.articles) = 2

\* C3 as stated: on a chain of L pages, all fetches succeeding, a crawl
\* without page budget ends after exactly L fetches with pagesScraped = L.
C3_Original ==
    (CrawlDone /\ maxPages = NoBudget /\ ~fetchFailed) =>
        (Len(fetchLog) = chainLen /\ result.pagesScraped = chainLen)

\* C3 amended: ... provided the crawl did not leave its loop through the
\* 300 s deadline.
C3_ChainTermination ==
    (CrawlDone /\ maxPages = NoBudget /\ ~fetchFailed /\ ~timedOut) =>
        (Len(fetchLog) = chainLen /\ result.pagesScraped = chainLen)

C3_Witness ==
    /\ CrawlDone /\ maxPages = NoBudget /\ ~fetchFailed /\ ~timedOut
    /\ chainLen = 3 /\ Len(fetchLog) = 3

\* the light crawl was given a page that is not the last of the chain
LightBeforeEnd ==
    /\ pc = "done" /\ driver = "light" /\ outcome.kind = "returned"
    /\ PageIndex(currentUrl) < chainLen

C5_LightSinglePage ==
    driver = "light" =>
        /\ fetchLog = <<currentUrl>>
        /\ (pc = "done" /\ outcome.kind = "returned") =>
               /\ insertCalls = 1
               /\ outcome.insertedCount = added
               /\ outcome.nextPageUrl = SiteNext(PageIndex(currentUrl))

C5_Witness ==
    /\ pc = "done" /\ driver = "light" /\ outcome.kind = "returned"
    /\ outcome.nextPageUrl # Absent /\ outcome.insertedCount > 0

\* C6: a fetch answered with a non-success status ends the crawl with a fetch
\* failure raised to the caller; a failed fetch of the first page never ends in
\* a normal result of zero pages and zero records.
C6_FetchFailureRaised ==
    (pc = "done" /\ fetchFailed) =>
        /\ outcome.kind = "threw"
        /\ ~(Len(fetchLog) = 1 /\ outcome.kind = "returned" /\ result.pagesScraped = 0
             /\ result.newUrls = <<>>)

\* C7: when the fetch of page k+1 fails after k >= 1 pages, no further page is
\* fetched and the driver returns the partial result of the k pages.
C7_PartialResultReturned ==
    (CrawlDone /\ fetchFailed /\ Len(fetchLog) >= 2) =>
        /\ outcome.kind = "returned"
        /\ result.pagesScraped = Len(fetchLog) - 1

\* C8: the urls a crawl fetches are the start url and then, each time, the
\* next-page url of the page fetched before; while a fetch is in flight it is
\* the only one, and every page before it has been counted and its records
\* are in the store.
C8_PaginationOrder ==
    driver \in Drivers =>
        /\ (fetchLog # <<>> => fetchLog[1] = StartUrl)
        /\ \A i \in 1..(Len(fetchLog) - 1) :
               /\ IsPage(fetchLog[i], chainLen)
               /\ fetchLog[i + 1] = SiteNext(PageIndex(fetchLog[i]))
        /\ inFlight = (IF pc = "fetching" THEN 1 ELSE 0)
        /\ pc = "fetching" =>
               /\ result.pagesScraped = Len(fetchLog) - 1
               /\ \A i \in 1..(Len(fetchLog) - 1) :
                      \A u \in ListedOn(PageIndex(fetchLog[i])) : UrlTaken(store, u)

C8_Witness == driver \in Drivers /\ pc = "fetching" /\ Len(fetchLog) = 3

\* C9: a fetch is only ever issued while no more than 300000 ms have passed
\* since the loop started.
C9_NoFetchAfterDeadline ==
    (driver \in Drivers /\ pc = "fetching") => elapsed <= TIMEOUT_MS

\* C10: a permalink stored by the batch insert carries the YYYY of its
\* timestamp as year field and the MMDD as month/day field.
C10_YearMonthDay ==
    \A r \in store : \A n \in 1..(MaxChain + 1) :
        (r.url = Permalink(n) /\ r.url_year # Null) =>
            (r.url_year = YearOf(n) /\ r.url_monthday = MonthDayOf(n))

\* C11: every record a crawl extracts, and every stored record, has a
\* non-empty title; the record of an anchor with blank text carries the glyph.
C11_TitleNeverEmpty ==
    /\ \A i \in 1..Len(pageArticles) :
           /\ pageArticles[i].title # <<>>
           /\ pageArticles[i].url = Permalink(LastPage + 1) => pageArticles[i].title = Glyph
    /\ \A r \in store : r.title # <<>>

C11_Witness ==
    /\ pc = "done" /\ driver = "worker" /\ pageArticles # <<>>
    /\ \E r \in store : r.url = Permalink(chainLen + 1) /\ r.title = Glyph

\* C12: on a well-formed page the pattern extractors of the light crawl give
\* what the tree-parsing extractor gives: the same records in the same order
\* and the same next-page url.
C12_ExtractorsAgree ==
    (pc = "done" /\ driver = "light" /\ outcome.kind = "returned"
     /\ WellFormedPage(PageAt(currentUrl, chainLen))) =>
        /\ pageArticles = CheerioArticles(PageAt(currentUrl, chainLen).sections)
        /\ outcome.nextPageUrl = CheerioNextUrl(PageAt(currentUrl, chainLen))

\* C13: the records the full crawl extracts from a page are one per container
\* that holds a permalink anchor, in page order; the url is the link itself
\* when it starts with 'http' (even pages) and the origin followed by the link
\* otherwise (odd pages); the title is the trimmed text, or the glyph for
\* blank text.
C13_ExtractionPerContainer ==
    (driver \in Drivers /\ pagesProcessed >= 1) =>
        pageArticles = ExpectedRecords(PageIndex(fetchLog[pagesProcessed]))

C13_Witness ==
    /\ driver \in Drivers /\ pagesProcessed = 2 /\ Len(pageArticles) = 2
    /\ StartsWithHttp(PageAt(fetchLog[2], chainLen).sections[1].href)

\* C14: in the random redirect endYear is the year before today's, startYear
\* is 2006, or 2007 exactly when today's month/day is before September 24, and
\* an empty window is answered with 404 without a store query.
C14_RedirectWindow ==
    (Responded /\ request.path = "/") =>
        /\ redirect.endYear = request.today.year - 1
        /\ redirect.startYear = (IF BeforeAnniversary(request.today) THEN 2007 ELSE 2006)
        /\ redirect.startYear > redirect.endYear => (response.status = 404 /\ queries = 0)

\* early in 2007 the window 2007..2006 is empty although 2006 is a past year
C14_Witness ==
    /\ Responded /\ request.path = "/"
    /\ request.today.year = 2007 /\ BeforeAnniversary(request.today)
    /\ response.status = 404 /\ queries = 0

\* C15: a 302 goes to a stored url whose year is the chosen year, a year of
\* the window and not the current one, and whose month/day is today's.
C15_RedirectTarget ==
    (Responded /\ response.status = 302) =>
        \E n \in 1..(MaxChain + 1) :
            /\ response.location = Permalink(n)
            /\ StoredForToday(n, redirect.randomYear)
            /\ redirect.randomYear >= (IF BeforeAnniversary(request.today) THEN 2007 ELSE 2006)
            /\ redirect.randomYear <= request.today.year - 1
            /\ YearOf(n) # YearString(request.today.year)

\* a redirect was made while the store also held a record of another day
C15_Witness ==
    /\ Responded /\ response.status = 302
    /\ \E r \in store : SqlSubstr(r.url, 31, 4) # SqlSubstr(response.location, 31, 4)

\* C16: a redirect request issues at most one store query; when the window is
\* not empty and no record matches the chosen year the answer is 404, whatever
\* the other years of the window hold.
C16_SingleQuery ==
    (Responded /\ request.path = "/") =>
        /\ queries <= 1
        /\ (/\ redirect.startYear <= redirect.endYear
            /\ ~\E n \in 1..(MaxChain + 1) : StoredForToday(n, redirect.randomYear)) =>
               (response.status = 404 /\ queries = 1)

\* a miss on the chosen year while another year of the window has a record of today
C16_Witness ==
    /\ Responded /\ request.path = "/" /\ response.status = 404 /\ queries = 1
    /\ \E n \in 1..(MaxChain + 1) : \E y \in redirect.startYear..redirect.endYear :
           StoredForToday(n, y)

\* C18: with the development flag false or unset a request to one of the five
\* scraping endpoints is answered with 403 and nothing else happens: no
\* parameter is validated, no page fetched, no row written.
C18_ProductionGate ==
    (request # NoRequest /\ request.dev # "true" /\ GatedPath(request)) =>
        (response.status = 403 /\ NothingCrawled)

\* a request with a missing parameter got 403, not 400
C18_Witness ==
    /\ Responded /\ response.status = 403
    /\ request.path = "/scrape/date-range" /\ request.startDate = Absent

\* C19: in development mode a malformed date input is answered with 400 and
\* nothing is crawled.
C19_MalformedDateRejected ==
    (request # NoRequest /\ request.dev = "true" /\ MalformedDateInput(request)) =>
        (response.status = 400 /\ NothingCrawled)

C19_Witness ==
    /\ Responded /\ response.status = 400 /\ request.dev = "true"
    /\ request.path = "/scrape/date/" /\ ParseInt(SubSeq(request.tail, 3, 4)) = 32

\* C20: /scrape-historical-batch answers 400 and crawls nothing when startDate
\* or endDate is missing or not 8 digits, or when startDate is later than
\* endDate.
C20_BatchRejected ==
    (/\ request # NoRequest /\ request.dev = "true"
     /\ request.path = "/scrape-historical-batch"
     /\ \/ request.startDate = Absent \/ request.endDate = Absent
        \/ ~IsDigits(request.startDate, 8) \/ ~IsDigits(request.endDate, 8)
        \/ ParseInt(request.startDate) > ParseInt(request.endDate)) =>
        (response.status = 400 /\ NothingCrawled)

\* C17: while two crawl invocations persist pages that share urls, in every
\* interleaving of their store statements, no two rows have the same url and
\* no stored row is changed or removed; an invocation that is through with
\* its page has handled every record of it (a refused insert was skipped, the
\* loop went on) and each of its urls is stored.
C17_RaceKeepsStoreSound ==
    /\ [](\A r1, r2 \in store : r1.url = r2.url => r1 = r2)
    /\ [][\A r \in store : r \in store']_vars
    /\ [](\A p \in DOMAIN crawls :
             crawls[p].phase = "done" =>
                 /\ crawls[p].newUrls + crawls[p].pageExistingUrls + crawls[p].errors
                        = Len(crawls[p].articles)
                 /\ \A i \in 1..Len(crawls[p].articles) :
                        Cardinality({r \in store : r.url = crawls[p].articles[i].url}) = 1)

\* both invocations took the per-record path, one lost a race on the unique
\* key, and both are through
C17_Witness ==
    /\ crawls # <<>>
    /\ \A p \in DOMAIN crawls : crawls[p].kind = "each" /\ crawls[p].phase = "done"
    /\ \E p \in DOMAIN crawls : crawls[p].errors >= 1

\* C21: the batch historical crawl visits the days one at a time in ascending
\* calendar order from startDate, visits no day after endDate and at most
\* maxDays days; a day whose crawl failed is still followed by the next day
\* of the range, and the request is answered with 200.
C21_BatchVisitsInOrder ==
    BatchAccepted =>
        /\ \A i \in 1..Len(fetchLog) :
               /\ fetchLog[i] = BatchDayUrl(i)
               /\ ParseInt(Slice(fetchLog[i], Len(Origin) + 1, Len(Origin) + 9))
                      <= ParseInt(request.endDate)
        /\ request.maxDays # Absent => Len(fetchLog) <= ParseInt(request.maxDays)
        /\ response.status \in {0, 200}
        /\ Responded =>
               \A i \in 1..Len(fetchLog) :
                   (/\ CrawlFailed(fetchLog[i])
                    /\ request.maxDays = Absent \/ i < ParseInt(request.maxDays)
                    /\ ParseInt(Slice(BatchDayUrl(i + 1), Len(Origin) + 1, Len(Origin) + 9))
                           <= ParseInt(request.endDate))
                       => Len(fetchLog) > i

\* a three-day batch is answered: the second day's crawl failed, the third
\* day was crawled all the same
C21_Witness ==
    /\ BatchAccepted /\ Responded /\ Len(fetchLog) = 3
    /\ CrawlFailed(fetchLog[2]) /\ processedDates # <<>>

\* C22: for a valid MMDD, /scrape/date/MMDD attempts one crawl per year
\* 2006..2025 in ascending order; a failed year is recorded in failedYears and
\* the later years are still attempted; at the response yearsProcessed and
\* failedYears are disjoint and cover the 20 years, and each total is the sum
\* over the results of the successful years.
C22_EveryYearAttempted ==
    DateScrapeAccepted =>
        /\ Len(fetchLog) <= Cardinality(ScanYears)
        /\ \A i \in 1..Len(fetchLog) :
               fetchLog[i] = Origin \o YearPath(ScanStartYear + i - 1)
        /\ response.status \in {0, 200}
        /\ Responded =>
               /\ Len(fetchLog) = Cardinality(ScanYears)
               /\ \A y \in ScanYears :
                      (YearPath(y) \in Range(processedDates)) # (YearPath(y) \in failedDates)
               /\ Range(processedDates) \cup failedDates = {YearPath(y) : y \in ScanYears}
               /\ \A i, j \in 1..Len(processedDates) :
                      i < j => ParseInt(Slice(processedDates[i], 1, 5))
                                   < ParseInt(Slice(processedDates[j], 1, 5))
               /\ Len(body.results) = Len(processedDates)
               /\ body.totalNewUrls = SumOver(NewUrlsOf, body.results)
               /\ body.totalExistingUrls = SumOver(ExistingOf, body.results)
               /\ body.totalPagesScrapped = SumOver(PagesOf, body.results)
               /\ body.totalPagesScrapped = Len(processedDates)
               /\ body.totalNewUrls = added

\* the 20 years were attempted, one failed, and a successful year brought both
\* a new url and one already stored
C22_Witness ==
    /\ DateScrapeAccepted /\ Responded
    /\ failedDates # {} /\ body.totalNewUrls >= 1 /\ body.totalExistingUrls >= 1

\* C23: for every pair of calendar month/days, generateMonthDaysBetween
\* returns the consecutive calendar days from start to end inclusive: the list
\* begins with start, ends with end, holds no month/day twice, and each entry
\* is the calendar successor of the one before (December 31 is followed by
\* January 1 when start is later than end).
C23_MonthDaysBetween ==
    (/\ rangeCall.phase = "returned"
     /\ CalendarMonthDay(rangeCall.startMonthDay)
     /\ CalendarMonthDay(rangeCall.endMonthDay)) =>
        LET days == rangeCall.monthDays
        IN  /\ days # <<>>
            /\ Head(days) = rangeCall.startMonthDay
            /\ days[Len(days)] = rangeCall.endMonthDay
            /\ Cardinality(Range(days)) = Len(days)
            /\ \A i \in 1..(Len(days) - 1) : FollowsInCalendar(days[i], days[i + 1])

\* C24: after init-progress without --analyze every calendar date of the year
\* range (from the site's first day on) has exactly one checkpoint row, and
\* running it again with the same years, also after crawls changed rows, adds
\* no row and leaves every row as it was.
C24_SeedRangeIdempotent ==
    /\ [](lastSeed.op = "range" =>
              SiteDatesTable[<<lastSeed.startYear, lastSeed.endYear>>]
                  \subseteq SeededDates(scrape_progress))
    /\ [](Cardinality(SeededDates(scrape_progress)) = Cardinality(scrape_progress))
    /\ [][(SeedStep /\ lastSeed'.op = "range" /\ lastSeed'.repeat) =>
              scrape_progress' = scrape_progress]_vars

\* the same range was seeded twice in a row and the table holds a completed date
C24_Witness ==
    /\ lastSeed.op = "range" /\ lastSeed.repeat
    /\ lastSeed.startYear = SeedFirstYear /\ lastSeed.endYear = SeedFirstYear
    /\ \E r \in scrape_progress : r.status = "completed" /\ r.urls_found >= 1

\* C25: whatever startYear and endYear the seeding operations are given, no
\* checkpoint row has a date before the site's first day, 2006-09-24.
C25_NoDateBeforeSiteStart ==
    \A r \in scrape_progress :
        ~BeforeSiteStart(ParseInt(SubSeq(r.date, 1, 4)), ParseInt(SubSeq(r.date, 5, 6)),
                         ParseInt(SubSeq(r.date, 7, 8)))

\* C26: init-progress --analyze adds a default row only for dates of the year
\* range that no archived url embeds, adds one for every such date (from the
\* site's first day on) that had no row, and leaves the rows that exist alone.
C26_SeedMissing ==
    [][(SeedStep /\ lastSeed'.op = "missing") =>
           /\ scrape_progress \subseteq scrape_progress'
           /\ \A r \in scrape_progress' \ scrape_progress :
                  /\ r = CheckpointRow(r.date)
                  /\ ParseInt(SubSeq(r.date, 1, 4)) \in lastSeed'.startYear..lastSeed'.endYear
                  /\ ~Archived(r.date)
                  /\ r.date \notin SeededDates(scrape_progress)
           /\ \A date \in SiteDatesTable[<<lastSeed'.startYear, lastSeed'.endYear>>] :
                  ~Archived(date) => date \in SeededDates(scrape_progress')]_vars

\* --analyze ran against an archive that holds a record of the crawl date: that
\* date has no row, the day before it has one
C26_Witness ==
    /\ lastSeed.op = "missing" /\ store # {}
    /\ CrawlDate \notin SeededDates(scrape_progress)
    /\ YearString(SeedFirstYear) \o Pad2(12) \o Pad2(30) \in SeededDates(scrape_progress)

\* C27: in every step (seeding, reseeding, a crawl's update) each checkpoint
\* row keeps its date, its pages_scraped and urls_found do not decrease, and a
\* completed row stays completed.
C27_CheckpointMonotone ==
    [][\A r \in scrape_progress \ scrape_progress' :
           \E n \in scrape_progress' \ scrape_progress :
               /\ n.date = r.date
               /\ n.pages_scraped >= r.pages_scraped
               /\ n.urls_found >= r.urls_found
               /\ r.status = "completed" => n.status = "completed"]_vars

\* a date was crawled to completion over two pages and init-progress ran with
\* --analyze after the first of them
C27_Witness ==
    /\ lastSeed.op = "missing" /\ lastSeed.runs = 0
    /\ \E r \in scrape_progress :
           r.status = "completed" /\ r.pages_scraped >= 2 /\ r.urls_found >= 1

\* C28: in the per-record insert path an error of the SELECT or of the INSERT
\* of one record is caught and skipped: nothing is thrown, every record of the
\* page is handled exactly once, the page is counted as scraped, and the
\* driver goes on to the page the next link names.
C28_RecordErrorSkipped ==
    \A p \in DOMAIN crawls :
        LET c == crawls[p]
        IN  /\ c.phase # "threw"
            /\ c.newUrls + c.pageExistingUrls + c.errors = c.index - 1
            /\ c.phase = "counted" =>
                   /\ c.index = Len(c.articles) + 1
                   /\ c.pagesScraped = 1
                   /\ c.existingUrlsCount = c.pageExistingUrls
                   /\ c.currentUrl = SiteNext(c.page)
                   /\ Cardinality({i \in 1..Len(c.articles) :
                                       ~UrlTaken(store, c.articles[i].url)}) <= c.errors

\* the statement for the first record failed, the second record was stored,
\* the page was counted and its next link is followed
C28_Witness ==
    /\ crawls # <<>> /\ crawls[1].phase = "counted"
    /\ crawls[1].errors = 1 /\ crawls[1].newUrls = 1
    /\ PlainRow(crawls[1].articles[1]) \notin store
    /\ crawls[1].currentUrl # Absent

C30_DelayBetweenFetches ==
    (driver \in Drivers /\ pc = "fetching" /\ pagesProcessed >= 1) =>
        elapsed >= pagesProcessed * DELAY_MS

\* C31: a 500 response that answers a crawl whose fetch threw does not carry
\* the text of the thrown error in its body.
C31_NoErrorTextInBody ==
    FetchErrorAnswered =>
        ~Contains(body.error, ScrapeFailureMessage(OutageStatusLine))

\* C32: the records a page adds to a full crawl's newUrls are exactly the
\* records whose rows the crawl inserted into the store for that page; a url
\* archived before is never among them.
C32_NewUrlsAreInserted ==
    [][(driver \in Drivers /\ pc = "fetching") =>
          {result'.newUrls[i].url : i \in (Len(result.newUrls) + 1)..Len(result'.newUrls)}
              = {row.url : row \in store' \ store}]_vars

\* C33: when a full crawl has returned, pagesScraped is the number of pages
\* whose fetch, extraction and persistence completed, and newUrls.length plus
\* existingUrlsCount is the number of records listed on those pages.
C33_CountsAddUp ==
    (CrawlDone /\ driver \in Drivers /\ outcome.kind = "returned") =>
        /\ result.pagesScraped = CompletedPages
        /\ Len(result.newUrls) + result.existingUrlsCount
               = RecordsOnPages(result.pagesScraped)

\* a returned crawl of two pages or more that met new and archived records
C33_Witness ==
    /\ CrawlDone /\ driver \in Drivers /\ outcome.kind = "returned"
    /\ result.pagesScraped >= 2
    /\ result.newUrls # <<>> /\ result.existingUrlsCount >= 1

\* the urls the invocations add to their newUrls in this step
NewlyReported ==
    UNION {{crawls'[p].reported[i].url :
               i \in (Len(crawls[p].reported) + 1)..Len(crawls'[p].reported)} :
           p \in Invocations}

\* in every interleaving of the store statements of two overlapping crawl
\* invocations, each statement raises the new-record counts by the number of
\* rows it adds to the store
NewCountsMatchStore ==
    [][crawls # <<>> =>
          ReportedNew(crawls', Cardinality(Invocations))
              - ReportedNew(crawls, Cardinality(Invocations))
          = Cardinality(store') - Cardinality(store)]_vars

\* C34: in every interleaving of the store statements of two overlapping
\* crawl invocations, each statement reports as new exactly the urls it adds
\* to the store, so that every url added is reported as new by exactly one
\* invocation and the new-record counts together equal the number of rows added.
C34_EachUrlReportedOnce ==
    [][crawls # <<>> =>
          /\ NewlyReported = {row.url : row \in store' \ store}
          /\ ReportedNew(crawls', Cardinality(Invocations))
                 - ReportedNew(crawls, Cardinality(Invocations))
             = Cardinality(store') - Cardinality(store)]_vars

\* C35: a crawl driver that was passed a page budget b >= 0 issues at most b
\* page fetches; with b = 0 it issues none.
C35_BudgetBoundsFetches ==
    (driver \in Drivers /\ maxPages # NoBudget /\ maxPages >= 0) =>
        Len(fetchLog) <= maxPages

\* C36: a batch historical crawl without maxDays that has been answered has
\* visited every date from startDate to endDate inclusive, one fetch per
\* date; with startDate = endDate that is exactly one date.
C36_WholeRangeVisited ==
    (BatchAccepted /\ request.maxDays = Absent /\ Responded) =>
        /\ Len(fetchLog) = DaysBetween(parseDateFromString(request.startDate),
                                       parseDateFromString(request.endDate)) + 1
        /\ \A i \in 1..Len(fetchLog) : fetchLog[i] = BatchDayUrl(i)

\* C37: for every row the batch insert stored, url_year is substr(url, 27, 4),
\* url_monthday is substr(url, 31, 4), and url_year followed by url_monthday
\* is the date segment substr(url, 27, 8) that the backfill, the redirect
\* query and the seeding analysis read.
C37_ColumnsMatchSqlSubstr ==
    \A r \in store :
        r.url_year # Null =>
            /\ r.url_year = SqlSubstr(r.url, YearFrom, 4)
            /\ r.url_monthday = SqlSubstr(r.url, YearFrom + 4, 4)
            /\ r.url_year \o r.url_monthday = SqlSubstr(r.url, DateFrom, DateLength)

\* C38: while the development flag is false or unset, no request of any path
\* starts a crawl: the handler fetches no page, writes no row and has no crawl
\* pending.
C38_NoCrawlInProduction ==
    (request # NoRequest /\ request.dev # "true") =>
        (fetchLog = <<>> /\ added = 0 /\ pending = <<>> /\ processedDates = <<>>)

\* C39: a crawl invocation without page budget eventually returns or raises,
\* whatever the shape of the site's pagination links, cycles included, as long
\* as every fetch and store call returns.
C39_CrawlReturns == <>(pc = "done")

====
